---------------------------- MODULE Spec2Model ----------------------------
(***************************************************************************)
(* canvas-downloader (src/src/main.rs): the fork! task launcher, main's    *)
(* two barrier waits, and get_canvas_api's retry loop.                     *)
(*                                                                         *)
(* Forked tasks are anonymous and interchangeable, so the model keeps, for *)
(* every position a forked task can be at, the number of tasks there       *)
(* (tasks[class]) instead of one program counter per task.                 *)
(***************************************************************************)
EXTENDS Naturals, Integers, Sequences, FiniteSets, TLC

\* ------------------------------------------------------------------ bounds
\* Most courses main selects (courses_matching_term_ids is never empty).
MaxCourses == 1
\* Most fork! calls in the discovery phase (the two root forks included).
MaxForks == 9
\* Most entries the accumulator files_to_download receives.
MaxFiles == 1
\* Most handler aborts (unwrap/panic sites) in one run.
MaxPanics == 1
\* Most fork! calls in the discovery phase when remote calls are followed.
MaxForksCalls == 3
\* Most links (a href or img src) one join_all of process_html_links awaits.
MaxLinks == 9

\* Most handler returns with Err(e) in one run.
MaxErrs == 1
\* Most pages a listing has: the uris get_pages can be sent to are 1..MaxPages.
MaxPages == 4
\* Most candidates one filter_files call is given.
MaxCands == 2
\* Most entries of the accumulator when filter_files results are followed.
MaxAccum == 2
\* Most download tasks whose file operations are followed.
MaxDownloads == 2
\* Chunks in the body of a download.
Chunks == 2
\* Most download tasks when one download is followed from request to commit.
MaxTransfers == 1
\* Most files an assignment's description links, and most attachments.
MaxOrdFiles == 1
\* Most fork! calls of the discovery phase where fair runs are followed.
MaxForksLive == 5

\* ------------------------------------------------------- program constants
\* tokio::sync::Semaphore::new(8)
K == 8
\* for retry in 0..3
MaxAttempts == 3
\* retry == 2
LastRetry == 2
\* reqwest::StatusCode::FORBIDDEN
FORBIDDEN == 403
\* gen_range(0..1000 * 2_u64.pow(retry))
BackoffBase == 1000

VARIABLES
    forkBudget,         \* fork! calls the server's content leads discovery to
    mainPc,             \* where main is
    courses_left,       \* courses the root-spawn loop still has to visit
    download_i,         \* entries of files_to_download the download loop has forked
    n_active_requests,  \* options.n_active_requests
    sem_requests,       \* permits available in options.sem_requests
    sem_closed,         \* options.sem_requests was closed
    notify_main,        \* options.notify_main holds a stored permit
    files_to_download,  \* options.files_to_download (behind its mutex)
    files_lock,         \* holder of the files_to_download mutex
    tasks,              \* class -> number of forked tasks at that position
    nDecs,              \* fetch_sub calls made by forked tasks so far
    nErrs,              \* handlers that returned Err(e) so far
    forkAtFull,         \* a running task forked while no permit was available
    api_pc,             \* where the get_canvas_api call is
    retry,              \* get_canvas_api's loop variable
    requests,           \* requests the call has sent
    served,             \* what the server answered, in order
    waits,              \* the wait_time of every backoff sleep, in milliseconds
    api_result,         \* what the call returned: [kind, status]
    pg_pc,              \* where the get_pages call is
    pg_link,            \* get_pages' link: the uri to request next, or None
    pg_sent,            \* the uris get_pages has requested, in order
    pg_got,             \* what get_canvas_api handed back, in order
    pg_resps,           \* get_pages' resps: the responses pushed so far
    pg_result,          \* how get_pages ended: "none", "Ok", "Err" or "panic"
    download_newer,     \* options.download_newer
    local_files,        \* the local directory: file name -> Absent, NoMtime or mtime
    filter_pc,          \* where the filter_files call is
    filter_in,          \* filter_files' argument files
    filter_out,         \* what filter_files returned
    dl_pc,              \* download task -> where it is in atomic_download_file
    dl_fd,              \* download task -> the inode its open file is, or NoInode
    dl_off,             \* download task -> chunks written through its file
    dl_reqs,            \* download task -> requests it has sent
    dl_status,          \* download task -> status of its response, 0 before it
    dl_err,             \* download task -> where its Err arose, or "none"
    dl_mtime,           \* download task -> "set", "failed", or "none" before
    dir,                \* the target directory: path -> inode, or NoInode
    data,               \* inode -> the chunk offsets that hold written bytes
    ord_pc,             \* task of one assignment -> where it is
    ord_links,          \* the files the assignment's description links to
    ord_atts,           \* the attachments of the user's submission
    ord_fs0,            \* the local directory as the execution found it
    ord_run,            \* 1: first execution, 2: second one on the same input
    ord_prev            \* files_to_download at the end of the first execution

engineVars == << forkBudget, mainPc, courses_left, download_i, n_active_requests,
                 sem_requests, sem_closed, notify_main, files_to_download,
                 files_lock, tasks, nDecs, nErrs, forkAtFull >>

apiVars == << api_pc, retry, requests, served, waits, api_result >>

pageVars == << pg_pc, pg_link, pg_sent, pg_got, pg_resps, pg_result >>

filterVars == << download_newer, local_files, filter_pc, filter_in, filter_out >>

dlVars == << dl_pc, dl_fd, dl_off, dl_reqs, dl_status, dl_err, dl_mtime, dir, data >>

orderVars == << ord_pc, ord_links, ord_atts, ord_fs0, ord_run, ord_prev >>

restVars == << pageVars, filterVars, dlVars, orderVars >>

vars == << engineVars, apiVars, restVars >>

\* ------------------------------------------------------------ task classes
\* A class is <<position, remote calls the task has in flight>>.
\*   spawned       discovery task, counted and spawned, awaiting acquire()
\*   run           discovery task inside its handler, holding a permit
\*   html_spawned  process_html_links task awaiting acquire()
\*   html          process_html_links before its first join_all
\*   html_files    ... awaiting join_all over the file links
\*   html_images   ... awaiting join_all over the image links
\*   html_end      ... after filter_files and the append
\*   dl_spawned    download task awaiting acquire()
\*   dl_run        atomic_download_file before download_file sends the request
\*   dl_fetch      ... request sent, response and body in flight
\*   dl_after      ... the transfer ended (either way), local file work left
\*   notify        handler finished, fetch_sub returned 1: notify_one is next
\*   exit          handler finished, counter decremented, permit still held
\*   done          task future completed, permit released
\*   panicked      handler aborted at a panic site: permit released by the
\*                 unwinding, fetch_sub never executed
\*   sem_panicked  acquire() returned Err: "Unexpected closed sem" panic
Spawned == << "spawned", 0 >>
Run == << "run", 0 >>
RunCall == << "run", 1 >>
HtmlSpawned == << "html_spawned", 0 >>
Html == << "html", 0 >>
HtmlFiles(c) == << "html_files", c >>
HtmlImages(c) == << "html_images", c >>
HtmlEnd == << "html_end", 0 >>
DlSpawned == << "dl_spawned", 0 >>
DlRun == << "dl_run", 0 >>
DlFetch == << "dl_fetch", 1 >>
DlAfter == << "dl_after", 0 >>
Notify == << "notify", 0 >>
Exit == << "exit", 0 >>
Done == << "done", 0 >>
Panicked == << "panicked", 0 >>
SemPanicked == << "sem_panicked", 0 >>

HtmlJoinClasses ==
    { HtmlFiles(c) : c \in 0..MaxLinks } \cup { HtmlImages(c) : c \in 0..MaxLinks }

\* Awaiting the semaphore.
WaitingClasses == { Spawned, HtmlSpawned, DlSpawned }

\* Inside the handler $f, holding a permit.
HandlerClasses ==
    { Run, RunCall, Html, HtmlEnd, DlRun, DlFetch, DlAfter } \cup HtmlJoinClasses

DiscoveryClasses ==
    { Spawned, HtmlSpawned, Run, RunCall, Html, HtmlEnd } \cup HtmlJoinClasses

DownloadClasses == { DlSpawned, DlRun, DlFetch, DlAfter }

Classes ==
    WaitingClasses \cup HandlerClasses \cup { Notify, Exit, Done, Panicked, SemPanicked }

\* The spec's fan-out scenario: the tasks main forks, and the tasks each of
\* them forks.
Scenario == [roots |-> 3, children |-> 2]

\* Positions of the scenario's tasks.
\*   fan_root k    a root task inside its handler, k children forked so far
\*   fan_spawned   a child task awaiting acquire()
\*   fan_child     a child inside its handler, its candidate not yet appended
\*   fan_end       a child after filter_files and the append
FanRoot(k) == << "fan_root", k >>
FanSpawned == << "fan_spawned", 0 >>
FanChild == << "fan_child", 0 >>
FanEnd == << "fan_end", 0 >>

FanClasses ==
    { FanRoot(k) : k \in 0..Scenario.children } \cup { FanSpawned, FanChild, FanEnd }

AllClasses == Classes \cup FanClasses

\* Number of tasks in the classes of S.
Count(S) ==
    Cardinality(UNION { { << cl, i >> : i \in 1..tasks[cl] } : cl \in S })

\* Number of remote calls the tasks in the classes of S have in flight.
Calls(S) ==
    Cardinality(UNION { { << cl, i, j >> : i \in 1..tasks[cl], j \in 1..cl[2] } : cl \in S })

\* Remote calls in flight: get_canvas_api requests, HEAD probes, downloads.
InFlight == Calls(Classes)

\* Tasks that were forked and whose handler has not finished.
Unfinished == Count(WaitingClasses \cup HandlerClasses)

\* Tasks holding a semaphore permit.
Holding == Count(HandlerClasses \cup { Notify, Exit })

\* All fork! calls so far.
nForked == Count(Classes)

\* Root forks main's loop has yet to make: two per course.
RootsLeft ==
    IF mainPc = "fork_data" THEN 2 * courses_left
    ELSE IF mainPc = "fork_videos" THEN 2 * courses_left - 1
    ELSE 0

\* The discovery phase may grow by one more task.
CanFork == nForked + RootsLeft < forkBudget

\* main has returned or panicked: the runtime is dropped, nothing runs on.
MainEnded == mainPc \in { "done", "exit_err", "panic_assert1", "panic_assert2" }

Alive == ~MainEnded

Move(from, to) ==
    tasks' = [tasks EXCEPT ![from] = @ - 1, ![to] = @ + 1]

\* ------------------------------------------------------------------ fork!
\* A launcher that takes the child's permit before it returns.
Fork_AcquiresInCaller(class) ==
    /\ sem_requests > 0
    /\ sem_requests' = sem_requests - 1
    /\ n_active_requests' = n_active_requests + 1
    /\ tasks' = [tasks EXCEPT ![class] = @ + 1]
    /\ UNCHANGED << sem_closed, notify_main >>

\* A launcher that spawns the task without counting it.
Fork_Uncounted(class) ==
    /\ tasks' = [tasks EXCEPT ![class] = @ + 1]
    /\ UNCHANGED << n_active_requests, sem_requests, sem_closed, notify_main >>

\* g(): fetch_add(1) and tokio::spawn, nothing else.
Fork(class) ==
    /\ n_active_requests' = n_active_requests + 1
    /\ tasks' = [tasks EXCEPT ![class] = @ + 1]
    /\ UNCHANGED << sem_requests, sem_closed, notify_main >>

\* A signal that is dropped when nobody waits for it.
NotifyOne_NotLatched ==
    IF mainPc = "blocked1" THEN mainPc' = "assert1" /\ UNCHANGED notify_main
    ELSE IF mainPc = "blocked2" THEN mainPc' = "close" /\ UNCHANGED notify_main
    ELSE UNCHANGED << notify_main, mainPc >>

\* notify_one(): hand the permit to main if it waits, store it otherwise.
NotifyOne ==
    IF mainPc = "blocked1" THEN mainPc' = "assert1" /\ UNCHANGED notify_main
    ELSE IF mainPc = "blocked2" THEN mainPc' = "close" /\ UNCHANGED notify_main
    ELSE notify_main' = TRUE /\ UNCHANGED mainPc

\* The spawned future's first step: sem_requests.acquire().await succeeds.
Acquire(from, to) ==
    /\ tasks[from] > 0
    /\ ~sem_closed
    /\ sem_requests > 0
    /\ sem_requests' = sem_requests - 1
    /\ Move(from, to)
    /\ UNCHANGED << forkBudget, mainPc, courses_left, download_i, n_active_requests,
                    sem_closed, notify_main, files_to_download, files_lock,
                    nDecs, nErrs, forkAtFull, apiVars, restVars >>

AcquireDiscovery ==
    /\ Alive
    /\ Acquire(Spawned, Run)

AcquireHtml ==
    /\ Alive
    /\ Acquire(HtmlSpawned, Html)

AcquireDownload ==
    /\ Alive
    /\ Acquire(DlSpawned, DlRun)

\* acquire() on a closed semaphore: unwrap_or_else panics, the task dies
\* before its handler and before its fetch_sub.
AcquireClosed ==
    /\ Alive
    /\ sem_closed
    /\ \E from \in WaitingClasses :
          /\ tasks[from] > 0
          /\ Move(from, SemPanicked)
    /\ UNCHANGED << forkBudget, mainPc, courses_left, download_i, n_active_requests,
                    sem_requests, sem_closed, notify_main, files_to_download,
                    files_lock, nDecs, nErrs, forkAtFull, apiVars, restVars >>

\* The task's fetch_sub(1) after its handler returned; new_val = old - 1.
Decrement(from) ==
    /\ n_active_requests' = n_active_requests - 1
    /\ nDecs' = nDecs + 1
    /\ IF n_active_requests - 1 = 0 THEN Move(from, Notify) ELSE Move(from, Exit)

\* let res = $f(..).await came back with res; the same lines follow Ok and Err.
Complete(from, res) ==
    /\ res = "Err" => nErrs < MaxErrs
    /\ nErrs' = IF res = "Err" THEN nErrs + 1 ELSE nErrs
    /\ Decrement(from)
    /\ UNCHANGED << mainPc, sem_requests, sem_closed, notify_main >>

\* The task unwinds out of $f: _sem is dropped, lines 59-65 never run.
Abort(from) ==
    /\ Move(from, Panicked)
    /\ sem_requests' = sem_requests + 1
    /\ UNCHANGED << n_active_requests, nDecs, nErrs, mainPc, sem_closed, notify_main >>

\* ----------------------------------------------------- discovery handlers
\* A discovery handler forks a child task (any handler but process_html_links).
HandlerFork ==
    /\ Alive
    /\ tasks[Run] > 0
    /\ CanFork
    /\ Fork(Spawned)
    /\ forkAtFull' = (forkAtFull \/ sem_requests = 0)
    /\ UNCHANGED << forkBudget, mainPc, courses_left, download_i, files_to_download,
                    files_lock, nDecs, nErrs, apiVars, restVars >>

\* A discovery handler forks process_html_links for an html body.
HandlerForkHtml ==
    /\ Alive
    /\ tasks[Run] > 0
    /\ CanFork
    /\ Fork(HtmlSpawned)
    /\ forkAtFull' = (forkAtFull \/ sem_requests = 0)
    /\ UNCHANGED << forkBudget, mainPc, courses_left, download_i, files_to_download,
                    files_lock, nDecs, nErrs, apiVars, restVars >>

\* An accumulator update that stores the new entries in place of the old ones.
AppendFiltered_Replaces ==
    /\ files_lock = "free"
    /\ \E k \in 0..(MaxFiles - Len(files_to_download)) :
          files_to_download' = [i \in 1..k |-> Len(files_to_download) + i]
    /\ UNCHANGED files_lock

\* lock().await; lock.append(&mut filtered_files); the guard is dropped.
AppendFiltered ==
    /\ files_lock = "free"
    /\ \E k \in 0..(MaxFiles - Len(files_to_download)) :
          files_to_download' =
              files_to_download
                  \o [i \in 1..k |-> Len(files_to_download) + i]
    /\ UNCHANGED files_lock

\* A discovery handler appends what filter_files kept.
HandlerAppend ==
    /\ Alive
    /\ tasks[Run] > 0
    /\ AppendFiltered
    /\ files_to_download' # files_to_download
    /\ UNCHANGED << forkBudget, mainPc, courses_left, download_i, n_active_requests,
                    sem_requests, sem_closed, notify_main, tasks, nDecs,
                    nErrs, forkAtFull, apiVars, restVars >>

\* A discovery handler sends a request (get_pages, get_canvas_api, client.post).
HandlerCall ==
    /\ Alive
    /\ tasks[Run] > 0
    /\ Move(Run, RunCall)
    /\ UNCHANGED << forkBudget, mainPc, courses_left, download_i, n_active_requests,
                    sem_requests, sem_closed, notify_main, files_to_download,
                    files_lock, nDecs, nErrs, forkAtFull, apiVars, restVars >>

\* The request's response (or error) arrives.
HandlerCallEnd ==
    /\ Alive
    /\ tasks[RunCall] > 0
    /\ Move(RunCall, Run)
    /\ UNCHANGED << forkBudget, mainPc, courses_left, download_i, n_active_requests,
                    sem_requests, sem_closed, notify_main, files_to_download,
                    files_lock, nDecs, nErrs, forkAtFull, apiVars, restVars >>

\* A discovery handler returns Ok(()) or Err(e).
HandlerReturn ==
    /\ Alive
    /\ tasks[Run] > 0
    /\ \E res \in { "Ok", "Err" } : Complete(Run, res)
    /\ UNCHANGED << forkBudget, courses_left, download_i, files_to_download,
                    files_lock, forkAtFull, apiVars, restVars >>

\* A discovery handler aborts at an unwrap()/index/panic! site.
HandlerPanic ==
    /\ Alive
    /\ tasks[Run] > 0
    /\ tasks[Panicked] < MaxPanics
    /\ Abort(Run)
    /\ UNCHANGED << forkBudget, courses_left, download_i, files_to_download,
                    files_lock, forkAtFull, apiVars, restVars >>

\* ---------------------------------------------------- process_html_links
\* join_all over the links: every future sends its request in the same poll.
JoinAll(from, to) ==
    /\ tasks[from] > 0
    /\ \E links \in 0..MaxLinks : Move(from, to[links])
    /\ UNCHANGED << forkBudget, mainPc, courses_left, download_i, n_active_requests,
                    sem_requests, sem_closed, notify_main, files_to_download,
                    files_lock, nDecs, nErrs, forkAtFull, apiVars, restVars >>

\* join_all(file_links.map(process_file_id))
HtmlJoinFiles ==
    /\ Alive
    /\ JoinAll(Html, [c \in 0..MaxLinks |-> HtmlFiles(c)])

\* join_all(image_links.map(prepare_link_for_download))
HtmlJoinImages ==
    /\ Alive
    /\ JoinAll(HtmlFiles(0), [c \in 0..MaxLinks |-> HtmlImages(c)])

\* One of the joined futures gets its response.
HtmlCallEnd ==
    /\ Alive
    /\ \E c \in 1..MaxLinks :
          \/ tasks[HtmlFiles(c)] > 0 /\ Move(HtmlFiles(c), HtmlFiles(c - 1))
          \/ tasks[HtmlImages(c)] > 0 /\ Move(HtmlImages(c), HtmlImages(c - 1))
    /\ UNCHANGED << forkBudget, mainPc, courses_left, download_i, n_active_requests,
                    sem_requests, sem_closed, notify_main, files_to_download,
                    files_lock, nDecs, nErrs, forkAtFull, apiVars, restVars >>

\* filter_files(link_files), lock, append.
HtmlAppend ==
    /\ Alive
    /\ tasks[HtmlImages(0)] > 0
    /\ AppendFiltered
    /\ Move(HtmlImages(0), HtmlEnd)
    /\ UNCHANGED << forkBudget, mainPc, courses_left, download_i, n_active_requests,
                    sem_requests, sem_closed, notify_main, nDecs, nErrs,
                    forkAtFull, apiVars, restVars >>

\* process_html_links returns Ok(()).
HtmlReturn ==
    /\ Alive
    /\ tasks[HtmlEnd] > 0
    /\ Complete(HtmlEnd, "Ok")
    /\ UNCHANGED << forkBudget, courses_left, download_i, files_to_download,
                    files_lock, forkAtFull, apiVars, restVars >>

\* --------------------------------------------------- atomic_download_file
\* download_file: client.get(url).send()
DownloadSend ==
    /\ Alive
    /\ tasks[DlRun] > 0
    /\ Move(DlRun, DlFetch)
    /\ UNCHANGED << forkBudget, mainPc, courses_left, download_i, n_active_requests,
                    sem_requests, sem_closed, notify_main, files_to_download,
                    files_lock, nDecs, nErrs, forkAtFull, apiVars, restVars >>

\* The transfer ends: the body is complete, or send/status/chunk failed.
DownloadFetched ==
    /\ Alive
    /\ tasks[DlFetch] > 0
    /\ Move(DlFetch, DlAfter)
    /\ UNCHANGED << forkBudget, mainPc, courses_left, download_i, n_active_requests,
                    sem_requests, sem_closed, notify_main, files_to_download,
                    files_lock, nDecs, nErrs, forkAtFull, apiVars, restVars >>

\* atomic_download_file returns Ok(()) or Err(e).
DownloadReturn ==
    /\ Alive
    /\ tasks[DlAfter] > 0
    /\ \E res \in { "Ok", "Err" } : Complete(DlAfter, res)
    /\ UNCHANGED << forkBudget, courses_left, download_i, files_to_download,
                    files_lock, forkAtFull, apiVars, restVars >>

\* ------------------------------------------------------- end of the task
\* if new_val == 0 { notify_one() }
TaskNotify ==
    /\ Alive
    /\ tasks[Notify] > 0
    /\ NotifyOne
    /\ Move(Notify, Exit)
    /\ UNCHANGED << forkBudget, courses_left, download_i, n_active_requests,
                    sem_requests, sem_closed, files_to_download, files_lock,
                    nDecs, nErrs, forkAtFull, apiVars, restVars >>

\* A task that ends without giving its permit back.
TaskExit_KeepsPermit ==
    /\ Alive
    /\ tasks[Exit] > 0
    /\ Move(Exit, Done)
    /\ UNCHANGED << forkBudget, mainPc, courses_left, download_i, n_active_requests,
                    sem_requests, sem_closed, notify_main, files_to_download,
                    files_lock, nDecs, nErrs, forkAtFull, apiVars, restVars >>

\* End of the spawned block: res is logged, _sem is dropped.
TaskExit ==
    /\ Alive
    /\ tasks[Exit] > 0
    /\ Move(Exit, Done)
    /\ sem_requests' = sem_requests + 1
    /\ UNCHANGED << forkBudget, mainPc, courses_left, download_i, n_active_requests,
                    sem_closed, notify_main, files_to_download, files_lock,
                    nDecs, nErrs, forkAtFull, apiVars, restVars >>

\* ------------------------------------------------------------------- main
\* fork!(process_data, ...) for the current course.
MainForkData ==
    /\ mainPc = "fork_data"
    /\ Fork(Spawned)
    /\ mainPc' = "fork_videos"
    /\ UNCHANGED << forkBudget, courses_left, download_i, files_to_download,
                    files_lock, nDecs, nErrs, forkAtFull, apiVars, restVars >>

\* fork!(process_videos, ...) for the current course, then the next course.
MainForkVideos ==
    /\ mainPc = "fork_videos"
    /\ Fork(Spawned)
    /\ courses_left' = courses_left - 1
    /\ mainPc' = IF courses_left - 1 = 0 THEN "wait1" ELSE "fork_data"
    /\ UNCHANGED << forkBudget, download_i, files_to_download, files_lock,
                    nDecs, nErrs, forkAtFull, apiVars, restVars >>

\* create_folder_if_not_exist(..)? fails inside the loop: main returns Err.
MainMkdirFail ==
    /\ mainPc \in { "fork_data", "fork_videos" }
    /\ mainPc' = "exit_err"
    /\ UNCHANGED << forkBudget, courses_left, download_i, n_active_requests,
                    sem_requests, sem_closed, notify_main, files_to_download,
                    files_lock, tasks, nDecs, nErrs, forkAtFull, apiVars, restVars >>

\* notify_main.notified().await, first poll: take the stored permit or wait.
MainWait ==
    /\ mainPc \in { "wait1", "wait2" }
    /\ IF notify_main
         THEN /\ notify_main' = FALSE
              /\ mainPc' = IF mainPc = "wait1" THEN "assert1" ELSE "close"
         ELSE /\ mainPc' = IF mainPc = "wait1" THEN "blocked1" ELSE "blocked2"
              /\ UNCHANGED notify_main
    /\ UNCHANGED << forkBudget, courses_left, download_i, n_active_requests,
                    sem_requests, sem_closed, files_to_download, files_lock, tasks,
                    nDecs, nErrs, forkAtFull, apiVars, restVars >>

\* A main without the assert_eq after the first wait.
MainAssert1_NoCheck ==
    /\ mainPc = "assert1"
    /\ mainPc' = "lock"
    /\ UNCHANGED << forkBudget, courses_left, download_i, n_active_requests,
                    sem_requests, sem_closed, notify_main, files_to_download,
                    files_lock, tasks, nDecs, nErrs, forkAtFull, apiVars, restVars >>

\* assert_eq!(n_active_requests.load(), 0) after the first wait.
MainAssert1 ==
    /\ mainPc = "assert1"
    /\ mainPc' = IF n_active_requests = 0 THEN "lock" ELSE "panic_assert1"
    /\ UNCHANGED << forkBudget, courses_left, download_i, n_active_requests,
                    sem_requests, sem_closed, notify_main, files_to_download,
                    files_lock, tasks, nDecs, nErrs, forkAtFull, apiVars, restVars >>

\* files_to_download.lock().await; the guard lives to the end of main.
MainLock ==
    /\ mainPc = "lock"
    /\ files_lock = "free"
    /\ files_lock' = "main"
    /\ mainPc' = "preinc"
    /\ UNCHANGED << forkBudget, courses_left, download_i, n_active_requests,
                    sem_requests, sem_closed, notify_main, files_to_download, tasks,
                    nDecs, nErrs, forkAtFull, apiVars, restVars >>

\* A main that enters the download loop without the extra unit.
MainPreInc_Missing ==
    /\ mainPc = "preinc"
    /\ mainPc' = "dl_loop"
    /\ UNCHANGED << forkBudget, courses_left, download_i, n_active_requests,
                    sem_requests, sem_closed, notify_main, files_to_download,
                    files_lock, tasks, nDecs, nErrs, forkAtFull, apiVars, restVars >>

\* fetch_add(1): "prevent notifying until all spawned".
MainPreInc ==
    /\ mainPc = "preinc"
    /\ n_active_requests' = n_active_requests + 1
    /\ mainPc' = "dl_loop"
    /\ UNCHANGED << forkBudget, courses_left, download_i, sem_requests, sem_closed,
                    notify_main, files_to_download, files_lock, tasks, nDecs,
                    nErrs, forkAtFull, apiVars, restVars >>

\* for canvas_file in files_to_download.iter() { fork!(atomic_download_file) }
MainForkDownload ==
    /\ mainPc = "dl_loop"
    /\ download_i < Len(files_to_download)
    /\ Fork(DlSpawned)
    /\ download_i' = download_i + 1
    /\ UNCHANGED << forkBudget, mainPc, courses_left, files_to_download, files_lock,
                    nDecs, nErrs, forkAtFull, apiVars, restVars >>

\* A loop that can end before it has visited every entry.
MainRelease_Early ==
    /\ mainPc = "dl_loop"
    /\ n_active_requests' = n_active_requests - 1
    /\ mainPc' = IF n_active_requests - 1 = 0 THEN "notify2" ELSE "wait2"
    /\ UNCHANGED << forkBudget, courses_left, download_i, sem_requests, sem_closed,
                    notify_main, files_to_download, files_lock, tasks, nDecs,
                    nErrs, forkAtFull, apiVars, restVars >>

\* The loop is over: fetch_sub(1) releases the pre-increment.
MainRelease ==
    /\ mainPc = "dl_loop"
    /\ download_i = Len(files_to_download)
    /\ n_active_requests' = n_active_requests - 1
    /\ mainPc' = IF n_active_requests - 1 = 0 THEN "notify2" ELSE "wait2"
    /\ UNCHANGED << forkBudget, courses_left, download_i, sem_requests, sem_closed,
                    notify_main, files_to_download, files_lock, tasks, nDecs,
                    nErrs, forkAtFull, apiVars, restVars >>

\* A main that does not signal itself when its release reaches 0.
MainNotify_Skipped ==
    /\ mainPc = "notify2"
    /\ mainPc' = "wait2"
    /\ UNCHANGED << forkBudget, courses_left, download_i, n_active_requests,
                    sem_requests, sem_closed, notify_main, files_to_download,
                    files_lock, tasks, nDecs, nErrs, forkAtFull, apiVars, restVars >>

\* "notify if all finished immediately": main is no waiter, the permit is stored.
MainNotify ==
    /\ mainPc = "notify2"
    /\ notify_main' = TRUE
    /\ mainPc' = "wait2"
    /\ UNCHANGED << forkBudget, courses_left, download_i, n_active_requests,
                    sem_requests, sem_closed, files_to_download, files_lock, tasks,
                    nDecs, nErrs, forkAtFull, apiVars, restVars >>

\* sem_requests.close()
MainClose ==
    /\ mainPc = "close"
    /\ sem_closed' = TRUE
    /\ mainPc' = "assert2"
    /\ UNCHANGED << forkBudget, courses_left, download_i, n_active_requests,
                    sem_requests, notify_main, files_to_download, files_lock, tasks,
                    nDecs, nErrs, forkAtFull, apiVars, restVars >>

\* assert_eq!(n_active_requests.load(), 0) after close; then main prints and returns.
MainAssert2 ==
    /\ mainPc = "assert2"
    /\ mainPc' = IF n_active_requests = 0 THEN "done" ELSE "panic_assert2"
    /\ UNCHANGED << forkBudget, courses_left, download_i, n_active_requests,
                    sem_requests, sem_closed, notify_main, files_to_download,
                    files_lock, tasks, nDecs, nErrs, forkAtFull, apiVars, restVars >>

\* --------------------------------------------------------- get_canvas_api
\* Status codes the server answers with.
Statuses == { 200, 403, 404, 429, 500 }

\* What client.get(..).send().await yields: a response, or a transport error.
Resp(status) == [net |-> "ok", status |-> status]

NetError == [net |-> "error", status |-> 0]

Responses == { Resp(st) : st \in Statuses } \cup { NetError }

RECURSIVE Pow2(_)
Pow2(n) == IF n = 0 THEN 1 ELSE 2 * Pow2(n - 1)

\* gen_range(0..1000 * 2_u64.pow(retry)): the exclusive upper end.
BackoffBound(r) == BackoffBase * Pow2(r)

\* The smallest, a middle and the largest wait_time the range holds.
WaitSamples(r) == { 0, BackoffBound(r) \div 2, BackoffBound(r) - 1 }

\* A loop that also retries on a 5xx answer.
ReturnsResponse_Retry5xx(status, r) ==
    (status # FORBIDDEN /\ status < 500) \/ r = LastRetry

\* A loop without the retry == 2 exit: the last 403 is slept on as well.
ReturnsResponse_NoLastRetry(status, r) ==
    status # FORBIDDEN \/ r = MaxAttempts

\* A loop that gives up one round earlier.
ReturnsResponse_OneRetry(status, r) ==
    status # FORBIDDEN \/ r = LastRetry - 1

\* resp.status() != FORBIDDEN || retry == 2: the response is returned.
ReturnsResponse(status, r) ==
    status # FORBIDDEN \/ r = LastRetry

ApiReturn(kind, status) ==
    /\ api_pc' = "returned"
    /\ api_result' = [kind |-> kind, status |-> status]

\* Url::parse(&url)?: a url that does not parse ends the call before any request.
ApiParseUrl ==
    /\ api_pc = "parse"
    /\ \E parses \in BOOLEAN :
          IF parses
            THEN api_pc' = "send" /\ UNCHANGED api_result
            ELSE ApiReturn("Err", 0)
    /\ UNCHANGED << retry, requests, served, waits, engineVars, restVars >>

\* client.get(&url)...send()
ApiSend ==
    /\ api_pc = "send"
    /\ requests' = requests + 1
    /\ api_pc' = "await"
    /\ UNCHANGED << retry, served, waits, api_result, engineVars, restVars >>

\* A loop that treats a transport error like a 403: it sleeps and goes on.
ApiResponse_RetriesNetError ==
    /\ api_pc = "await"
    /\ \E r \in Responses :
          /\ served' = Append(served, r)
          /\ IF r.net = "ok" /\ ReturnsResponse(r.status, retry)
               THEN ApiReturn("Ok", r.status) /\ UNCHANGED waits
               ELSE /\ api_pc' = "sleep"
                    /\ \E w \in WaitSamples(retry) : waits' = Append(waits, w)
                    /\ UNCHANGED api_result
    /\ UNCHANGED << retry, requests, engineVars, restVars >>

\* match resp: return the response, return the error, or pick a wait_time.
ApiResponse ==
    /\ api_pc = "await"
    /\ \E r \in Responses :
          /\ served' = Append(served, r)
          /\ IF r.net = "error"
               THEN ApiReturn("Err", 0) /\ UNCHANGED waits
               ELSE IF ReturnsResponse(r.status, retry)
                 THEN ApiReturn("Ok", r.status) /\ UNCHANGED waits
                 ELSE /\ api_pc' = "sleep"
                      /\ \E w \in WaitSamples(retry) : waits' = Append(waits, w)
                      /\ UNCHANGED api_result
    /\ UNCHANGED << retry, requests, engineVars, restVars >>

\* tokio::time::sleep(wait_time) is over: the next round of the loop, or
\* Err("canvas request failed") when the range is used up.
ApiBackoff ==
    /\ api_pc = "sleep"
    /\ retry' = retry + 1
    /\ IF retry + 1 < MaxAttempts
         THEN api_pc' = "send" /\ UNCHANGED api_result
         ELSE ApiReturn("Err", 0)
    /\ UNCHANGED << requests, served, waits, engineVars, restVars >>

\* -------------------------------------------------------------- get_pages
\* A uri of the listing is its page number; NoUri is Option::None.
NoUri == 0

Uris == 1..MaxPages

\* What get_canvas_api(uri) hands to get_pages: a response without a usable
\* LINK header, one whose header does not parse, one with the relations
\* current/next/last (each a uri, or NoUri when the relation is missing),
\* or Err.
PageAnswer(header, current, next, last) ==
    [header |-> header, current |-> current, next |-> next, last |-> last]

ApiErr == PageAnswer("api_err", NoUri, NoUri, NoUri)

\* The answers a server can give to the request for uri u.
PageAnswers(u) ==
    { ApiErr, PageAnswer("absent", NoUri, NoUri, NoUri),
      PageAnswer("malformed", NoUri, NoUri, NoUri) }
    \cup { PageAnswer("links", c, n, l) :
              c \in { NoUri, u },
              n \in { NoUri } \cup (IF u < MaxPages THEN { u + 1 } ELSE { }),
              l \in { NoUri, u, MaxPages } }

\* parse_link_header::Link as parse_with_rel builds it for one relation:
\* the uri, and params, which holds the link's own rel.
Link(rel, uri) == [raw_uri |-> uri, params |-> [rel |-> rel]]

\* cur == last on two Links: the derived equality, field by field.
LinkEq(a, b) == a = b

PNone == [kind |-> "None", uri |-> NoUri]

PSome(uri) == [kind |-> "Some", uri |-> uri]

PPanic == [kind |-> "panic", uri |-> NoUri]

\* parse_next_page(&resp): None, Some(next.raw_uri), or a panic.
parse_next_page(resp) ==
    IF resp.header = "absent" THEN PNone
    ELSE IF resp.header = "malformed" THEN PPanic
    ELSE IF resp.next = NoUri THEN PNone
    ELSE IF resp.current = NoUri THEN PPanic
    ELSE IF resp.last = NoUri THEN PNone
    ELSE IF LinkEq(Link("current", resp.current), Link("last", resp.last)) THEN PNone
    ELSE PSome(resp.next)

\* while let Some(uri) = link: get_canvas_api(uri, options) is called.
PgSend ==
    /\ pg_pc = "loop"
    /\ pg_link # NoUri
    /\ pg_sent' = Append(pg_sent, pg_link)
    /\ pg_pc' = "await"
    /\ UNCHANGED << pg_link, pg_got, pg_resps, pg_result, engineVars, apiVars, filterVars, orderVars, dlVars >>

\* get_canvas_api(..).await? came back; link = parse_next_page(&resp); push.
PgResponse ==
    /\ pg_pc = "await"
    /\ \E r \in PageAnswers(pg_link) :
          /\ pg_got' = Append(pg_got, r)
          /\ IF r = ApiErr
               THEN /\ pg_pc' = "returned"
                    /\ pg_result' = "Err"
                    /\ UNCHANGED << pg_link, pg_resps >>
               ELSE IF parse_next_page(r).kind = "panic"
                 THEN /\ pg_pc' = "returned"
                      /\ pg_result' = "panic"
                      /\ UNCHANGED << pg_link, pg_resps >>
                 ELSE /\ pg_link' = parse_next_page(r).uri
                      /\ pg_resps' = Append(pg_resps, r)
                      /\ pg_pc' = "loop"
                      /\ UNCHANGED pg_result
    /\ UNCHANGED << pg_sent, engineVars, apiVars, filterVars, orderVars, dlVars >>

\* link is None: the loop ends, Ok(resps).
PgReturn ==
    /\ pg_pc = "loop"
    /\ pg_link = NoUri
    /\ pg_pc' = "returned"
    /\ pg_result' = "Ok"
    /\ UNCHANGED << pg_link, pg_sent, pg_got, pg_resps, engineVars, apiVars,
                    filterVars, orderVars, dlVars >>

\* ----------------------------------------------------------- filter_files
\* Characters of a display name; sanitize_filename::sanitize drops the
\* ones a file name cannot hold.
Illegal == { "?", "/" }

DisplayNames == { << "a" >>, << "a", "?" >>, << "b" >> }

IsLegal(c) == c \notin Illegal

sanitize(display_name) == SelectSeq(display_name, IsLegal)

\* updated_at as the server sends it: an RFC 3339 text with a clock time and
\* a zone offset, or a text that is no RFC 3339 date.
BadStamp == [ok |-> FALSE, clock |-> 0, offset |-> 0]

Stamp(clock, offset) == [ok |-> TRUE, clock |-> clock, offset |-> offset]

Stamps == { BadStamp } \cup { Stamp(c, o) : c \in { 1, 2 }, o \in { 0, 1 } }

\* DateTime::parse_from_rfc3339(..).is_ok()
ParsesRfc3339(stamp) == stamp.ok

\* SystemTime::from(DateTime): the instant, the zone offset taken off.
Instant(stamp) == stamp.clock - stamp.offset

\* A canvas::File before filter_files sets its filepath.
NoPath == << >>

Candidate(name, locked, stamp) ==
    [display_name |-> name, locked_for_user |-> locked, updated_at |-> stamp,
     filepath |-> NoPath]

Candidates ==
    { Candidate(n, l, st) : n \in DisplayNames, l \in BOOLEAN, st \in Stamps }

\* Vec<File> of at most n candidates.
CandidateLists(n) == UNION { [1..k -> Candidates] : k \in 0..n }

\* The state of one name in the local directory.
Absent == -1

NoMtime == -2

LocalStates == { Absent, NoMtime, 1 }

FileNames == { sanitize(n) : n \in DisplayNames }

\* f.filepath.exists()
Exists(filepath) == local_files[filepath] # Absent

\* An update test that takes an equal timestamp for newer.
updated_NotStrict(filepath, new_modified) ==
    /\ local_files[filepath] \notin { Absent, NoMtime }
    /\ ParsesRfc3339(new_modified)
    /\ local_files[filepath] <= Instant(new_modified)

\* updated(): old_modified < new_modified, false when either cannot be read.
updated(filepath, new_modified) ==
    /\ local_files[filepath] \notin { Absent, NoMtime }
    /\ ParsesRfc3339(new_modified)
    /\ local_files[filepath] < Instant(new_modified)

\* f.filepath = path.join(sanitized_filename), within the one directory path.
WithPath(f) == [f EXCEPT !.filepath = sanitize(f.display_name)]

\* A filter that lets locked files through.
NotLocked_Ignored(f) == TRUE

\* .filter(|f| !f.locked_for_user)
NotLocked(f) == ~f.locked_for_user

\* A filter that lets every timestamp through.
StampParses_Ignored(f) == TRUE

\* .filter(|f| parse_from_rfc3339(&f.updated_at).is_ok())
StampParses(f) == ParsesRfc3339(f.updated_at)

\* A filter that keeps only updates of files already there.
NewOrUpdated_OnlyUpdated(f) ==
    updated(f.filepath, f.updated_at) /\ download_newer

\* .filter(|f| !f.filepath.exists() || (updated(..) && options.download_newer))
NewOrUpdated(f) ==
    ~Exists(f.filepath) \/ (updated(f.filepath, f.updated_at) /\ download_newer)

Kept(f) == NotLocked(f) /\ StampParses(f) /\ NewOrUpdated(f)

\* filter_files(options, path, files): map, three filters, collect.
filter_files(files) ==
    SelectSeq([i \in 1..Len(files) |-> WithPath(files[i])], Kept)

\* One call of filter_files.
FilterCall ==
    /\ filter_pc = "call"
    /\ filter_out' = filter_files(filter_in)
    /\ filter_pc' = "returned"
    /\ UNCHANGED << download_newer, local_files, filter_in, pageVars, dlVars, orderVars,
                    engineVars, apiVars >>

\* A discovery handler: filter_files on what it found, lock, append.
FilterAppend ==
    /\ filter_pc = "idle"
    /\ files_lock = "free"
    /\ \E files \in CandidateLists(MaxCands) :
          /\ Len(files_to_download) + Len(filter_files(files)) <= MaxAccum
          /\ files_to_download' = files_to_download \o filter_files(files)
    /\ UNCHANGED << forkBudget, mainPc, courses_left, download_i, n_active_requests,
                    sem_requests, sem_closed, notify_main, files_lock, tasks,
                    nDecs, nErrs, forkAtFull, apiVars, restVars >>

\* ------------------------------------------- atomic_download_file, on disk
\* The download tasks main forks: one per entry of files_to_download.
Downloads == 1..Len(files_to_download)

\* tmp_path: the file's directory and the hash of its display name, ".tmp".
TmpPath(f) == << "tmp", f.display_name >>

\* file.filepath, as filter_files set it.
FinalPath(f) == << "final", f.filepath >>

Paths ==
    { << "final", n >> : n \in FileNames } \cup { << "tmp", d >> : d \in DisplayNames }

\* An inode is named after the task whose File::create made it; OldFile is
\* the complete file a former run left at a final path.
NoInode == 0

OldFile == -1

Inodes == 1..MaxDownloads

\* The file holds one whole body.
WholeBody(ino) == data[ino] = 1..Chunks

\* std::fs::rename(from, to): the path to now names from's inode.
RenameOnto(from, to) ==
    /\ dir' = [dir EXCEPT ![to] = dir[from], ![from] = NoInode]
    /\ UNCHANGED data

\* What a download's request can be answered with.
DlResponses == { Resp(200), Resp(FORBIDDEN), Resp(500), NetError }

\* resp.status().is_success()
IsSuccess(status) == status \in 200..299

\* The task leaves download_file with Err(e): e remembers where it arose.
DlFail(i, where) ==
    /\ dl_pc' = [dl_pc EXCEPT ![i] = "cleanup"]
    /\ dl_err' = [dl_err EXCEPT ![i] = where]

\* download_file: client.get(url).bearer_auth(..).send()
FetchFile ==
    /\ \E i \in Downloads :
          /\ dl_pc[i] = "start"
          /\ dl_pc' = [dl_pc EXCEPT ![i] = "fetch"]
          /\ dl_reqs' = [dl_reqs EXCEPT ![i] = @ + 1]
    /\ UNCHANGED << dl_fd, dl_off, dl_status, dl_err, dl_mtime, dir, data,
                    engineVars, apiVars, pageVars, filterVars, orderVars >>

\* A download that asks again when it is answered 403.
FetchResponse_Retries403 ==
    /\ \E i \in Downloads :
          /\ dl_pc[i] = "fetch"
          /\ \E r \in DlResponses :
                IF r.net = "error"
                  THEN DlFail(i, "send") /\ UNCHANGED dl_status
                  ELSE /\ dl_status' = [dl_status EXCEPT ![i] = r.status]
                       /\ IF r.status = FORBIDDEN /\ dl_reqs[i] < MaxAttempts
                            THEN /\ dl_pc' = [dl_pc EXCEPT ![i] = "start"]
                                 /\ UNCHANGED dl_err
                            ELSE IF IsSuccess(r.status)
                              THEN /\ dl_pc' = [dl_pc EXCEPT ![i] = "create"]
                                   /\ UNCHANGED dl_err
                              ELSE DlFail(i, "status")
    /\ UNCHANGED << dl_fd, dl_off, dl_reqs, dl_mtime, dir, data,
                    engineVars, apiVars, pageVars, filterVars, orderVars >>

\* .send().await...?  and  if !resp.status().is_success() { return Err }
FetchResponse ==
    /\ \E i \in Downloads :
          /\ dl_pc[i] = "fetch"
          /\ \E r \in DlResponses :
                IF r.net = "error"
                  THEN DlFail(i, "send") /\ UNCHANGED dl_status
                  ELSE /\ dl_status' = [dl_status EXCEPT ![i] = r.status]
                       /\ IF IsSuccess(r.status)
                            THEN /\ dl_pc' = [dl_pc EXCEPT ![i] = "create"]
                                 /\ UNCHANGED dl_err
                            ELSE DlFail(i, "status")
    /\ UNCHANGED << dl_fd, dl_off, dl_reqs, dl_mtime, dir, data,
                    engineVars, apiVars, pageVars, filterVars, orderVars >>

\* std::fs::File::create(tmp_path): a new file, or the one already at
\* tmp_path, emptied; or the create fails.
CreateTmp ==
    /\ \E i \in Downloads :
          LET tmp == TmpPath(files_to_download[i]) IN
          /\ dl_pc[i] = "create"
          /\ \/ /\ dir[tmp] = NoInode
                /\ dir' = [dir EXCEPT ![tmp] = i]
                /\ data' = [data EXCEPT ![i] = { }]
                /\ dl_fd' = [dl_fd EXCEPT ![i] = i]
                /\ dl_pc' = [dl_pc EXCEPT ![i] = "write"]
                /\ UNCHANGED dl_err
             \/ /\ dir[tmp] # NoInode
                /\ data' = [data EXCEPT ![dir[tmp]] = { }]
                /\ dl_fd' = [dl_fd EXCEPT ![i] = dir[tmp]]
                /\ dl_pc' = [dl_pc EXCEPT ![i] = "write"]
                /\ UNCHANGED << dir, dl_err >>
             \/ /\ DlFail(i, "create")
                /\ UNCHANGED << dl_fd, dir, data >>
    /\ UNCHANGED << dl_off, dl_reqs, dl_status, dl_mtime, engineVars, apiVars,
                    pageVars, filterVars, orderVars >>

\* resp.chunk().await? gave a chunk and io::copy wrote it at the file's
\* offset, or one of the two failed.
WriteChunk ==
    /\ \E i \in Downloads :
          /\ dl_pc[i] = "write"
          /\ dl_off[i] < Chunks
          /\ \/ /\ data' = [data EXCEPT ![dl_fd[i]] = @ \cup { dl_off[i] + 1 }]
                /\ dl_off' = [dl_off EXCEPT ![i] = @ + 1]
                /\ UNCHANGED << dl_pc, dl_fd, dl_err >>
             \/ /\ DlFail(i, "copy")
                /\ dl_fd' = [dl_fd EXCEPT ![i] = NoInode]
                /\ UNCHANGED << dl_off, data >>
    /\ UNCHANGED << dl_reqs, dl_status, dl_mtime, dir, engineVars, apiVars,
                    pageVars, filterVars, orderVars >>

\* A download_file that renames the temp file itself when the body ends.
FinishBody_Commits ==
    /\ \E i \in Downloads :
          LET f == files_to_download[i] IN
          /\ dl_pc[i] = "write"
          /\ dl_off[i] = Chunks
          /\ dir[TmpPath(f)] # NoInode
          /\ dl_pc' = [dl_pc EXCEPT ![i] = "committed"]
          /\ dl_fd' = [dl_fd EXCEPT ![i] = NoInode]
          /\ RenameOnto(TmpPath(f), FinalPath(f))
    /\ UNCHANGED << dl_off, dl_reqs, dl_status, dl_err, dl_mtime, engineVars,
                    apiVars, pageVars, filterVars, orderVars >>

\* resp.chunk() gave None: download_file returns Ok(()) and drops the file.
FinishBody ==
    /\ \E i \in Downloads :
          /\ dl_pc[i] = "write"
          /\ dl_off[i] = Chunks
          /\ dl_pc' = [dl_pc EXCEPT ![i] = "mtime"]
          /\ dl_fd' = [dl_fd EXCEPT ![i] = NoInode]
    /\ UNCHANGED << dl_off, dl_reqs, dl_status, dl_err, dl_mtime, dir, data,
                    engineVars, apiVars, pageVars, filterVars, orderVars >>

\* A finalizing step that gives up when the modification time cannot be set.
SetMtime_Fatal ==
    /\ \E i \in Downloads :
          /\ dl_pc[i] = "mtime"
          /\ IF ~ParsesRfc3339(files_to_download[i].updated_at)
               THEN /\ dl_pc' = [dl_pc EXCEPT ![i] = "failed"]
                    /\ dl_err' = [dl_err EXCEPT ![i] = "parse"]
                    /\ UNCHANGED dl_mtime
               ELSE \E ok \in BOOLEAN :
                      /\ dl_mtime' = [dl_mtime EXCEPT ![i] = IF ok THEN "set" ELSE "failed"]
                      /\ dl_pc' = [dl_pc EXCEPT ![i] = IF ok THEN "rename" ELSE "failed"]
                      /\ dl_err' = [dl_err EXCEPT ![i] = IF ok THEN @ ELSE "mtime"]
    /\ UNCHANGED << dl_fd, dl_off, dl_reqs, dl_status, dir, data,
                    engineVars, apiVars, pageVars, filterVars, orderVars >>

\* DateTime::parse_from_rfc3339(&file.updated_at)? and set_file_mtime on the
\* temp file, whose failure is printed and nothing more.
SetMtime ==
    /\ \E i \in Downloads :
          /\ dl_pc[i] = "mtime"
          /\ IF ~ParsesRfc3339(files_to_download[i].updated_at)
               THEN /\ dl_pc' = [dl_pc EXCEPT ![i] = "failed"]
                    /\ dl_err' = [dl_err EXCEPT ![i] = "parse"]
                    /\ UNCHANGED dl_mtime
               ELSE \E ok \in BOOLEAN :
                      /\ dl_mtime' = [dl_mtime EXCEPT ![i] = IF ok THEN "set" ELSE "failed"]
                      /\ dl_pc' = [dl_pc EXCEPT ![i] = "rename"]
                      /\ UNCHANGED dl_err
    /\ UNCHANGED << dl_fd, dl_off, dl_reqs, dl_status, dir, data,
                    engineVars, apiVars, pageVars, filterVars, orderVars >>

\* std::fs::rename(&tmp_path, &file.filepath)?: it fails when nothing is at
\* tmp_path, and may fail otherwise.
RenameTmp ==
    /\ \E i \in Downloads :
          LET f == files_to_download[i] IN
          /\ dl_pc[i] = "rename"
          /\ \/ /\ dir[TmpPath(f)] # NoInode
                /\ dl_pc' = [dl_pc EXCEPT ![i] = "committed"]
                /\ RenameOnto(TmpPath(f), FinalPath(f))
                /\ UNCHANGED dl_err
             \/ /\ dl_pc' = [dl_pc EXCEPT ![i] = "failed"]
                /\ dl_err' = [dl_err EXCEPT ![i] = "rename"]
                /\ UNCHANGED << dir, data >>
    /\ UNCHANGED << dl_fd, dl_off, dl_reqs, dl_status, dl_mtime, engineVars,
                    apiVars, pageVars, filterVars, orderVars >>

\* An error path that returns Err(e) and leaves the temp file where it is.
RemoveTmp_Missing ==
    /\ \E i \in Downloads :
          /\ dl_pc[i] = "cleanup"
          /\ dl_pc' = [dl_pc EXCEPT ![i] = "failed"]
    /\ UNCHANGED << dl_fd, dl_off, dl_reqs, dl_status, dl_err, dl_mtime, dir, data,
                    engineVars, apiVars, pageVars, filterVars, orderVars >>

\* download_file returned Err: std::fs::remove_file(&tmp_path), return Err(e).
RemoveTmp ==
    /\ \E i \in Downloads :
          /\ dl_pc[i] = "cleanup"
          /\ dl_pc' = [dl_pc EXCEPT ![i] = "failed"]
          /\ dir' = [dir EXCEPT ![TmpPath(files_to_download[i])] = NoInode]
    /\ UNCHANGED << dl_fd, dl_off, dl_reqs, dl_status, dl_err, dl_mtime, data,
                    engineVars, apiVars, pageVars, filterVars, orderVars >>

\* ------------------------------------------------- the fan-out scenario
\* main's loop over the top-level targets: one fork! per root task.
FanMainFork ==
    /\ mainPc = "fork_root"
    /\ courses_left > 0
    /\ Fork(Spawned)
    /\ courses_left' = courses_left - 1
    /\ mainPc' = IF courses_left - 1 = 0 THEN "wait1" ELSE "fork_root"
    /\ UNCHANGED << forkBudget, download_i, files_to_download, files_lock,
                    nDecs, nErrs, forkAtFull, apiVars, restVars >>

FanAcquireRoot ==
    /\ Alive
    /\ Acquire(Spawned, FanRoot(0))

FanAcquireChild ==
    /\ Alive
    /\ Acquire(FanSpawned, FanChild)

\* A root's handler forks its next child: g() counts it and spawns it.
FanRootFork ==
    /\ Alive
    /\ \E k \in 0..(Scenario.children - 1) :
          /\ tasks[FanRoot(k)] > 0
          /\ tasks' = [tasks EXCEPT ![FanRoot(k)] = @ - 1,
                                    ![FanRoot(k + 1)] = @ + 1,
                                    ![FanSpawned] = @ + 1]
    /\ n_active_requests' = n_active_requests + 1
    /\ forkAtFull' = (forkAtFull \/ sem_requests = 0)
    /\ UNCHANGED << forkBudget, mainPc, courses_left, download_i, sem_requests,
                    sem_closed, notify_main, files_to_download, files_lock,
                    nDecs, nErrs, apiVars, restVars >>

\* A root that forked all its children returns Ok(()).
FanRootReturn ==
    /\ Alive
    /\ tasks[FanRoot(Scenario.children)] > 0
    /\ Complete(FanRoot(Scenario.children), "Ok")
    /\ UNCHANGED << forkBudget, courses_left, download_i, files_to_download,
                    files_lock, forkAtFull, apiVars, restVars >>

\* A child: filter_files keeps its one candidate; lock, append.
FanChildAppend ==
    /\ Alive
    /\ tasks[FanChild] > 0
    /\ files_lock = "free"
    /\ files_to_download' = Append(files_to_download, Len(files_to_download) + 1)
    /\ Move(FanChild, FanEnd)
    /\ UNCHANGED << forkBudget, mainPc, courses_left, download_i, n_active_requests,
                    sem_requests, sem_closed, notify_main, files_lock, nDecs,
                    nErrs, forkAtFull, apiVars, restVars >>

\* A child returns Ok(()).
FanChildReturn ==
    /\ Alive
    /\ tasks[FanEnd] > 0
    /\ Complete(FanEnd, "Ok")
    /\ UNCHANGED << forkBudget, courses_left, download_i, files_to_download,
                    files_lock, forkAtFull, apiVars, restVars >>

\* ------------------------------------------------------------ specification
\* options as main builds it, before the root-spawn loop.
OptionsInit ==
    /\ download_i = 0
    /\ n_active_requests = 0
    /\ sem_requests = K
    /\ sem_closed = FALSE
    /\ notify_main = FALSE
    /\ files_to_download = << >>
    /\ files_lock = "free"
    /\ tasks = [c \in AllClasses |-> 0]
    /\ nDecs = 0
    /\ nErrs = 0
    /\ forkAtFull = FALSE

\* main at the head of its loop over the courses.
EngineInit ==
    /\ mainPc = "fork_data"
    /\ courses_left \in 1..MaxCourses
    /\ OptionsInit

\* ------------------------------------ one assignment's two discovery tasks
\* process_assignments forks, for an assignment, process_submissions and
\* process_html_links on the same directory assignment_path.
OrdChildren == { "submissions", "html_links" }

OrdTasks == { "assignments" } \cup OrdChildren

\* path.join("submission.json"): of the model's file names, << "b" >>.
submissions_json == << "b" >>

\* The modification time File::create leaves: later than every updated_at.
Now == 3

\* Files as the server lists them: unlocked, with a timestamp that parses.
OrdCandidates == { Candidate(n, FALSE, Stamp(2, 0)) : n \in DisplayNames }

OrdLists == UNION { [1..k -> OrdCandidates] : k \in 0..MaxOrdFiles }

\* No task but the ones followed here touches the rest of the engine.
OrdFrame ==
    UNCHANGED << forkBudget, courses_left, download_i, sem_closed, notify_main,
                 files_lock, tasks, nDecs, nErrs, forkAtFull, apiVars, pageVars,
                 dlVars, download_newer, filter_pc, filter_in, filter_out,
                 ord_links, ord_atts, ord_fs0, ord_run, ord_prev >>

\* fork!(process_submissions, (submissions_url, assignment_path.clone()), ..)
OrdForkSubmissions ==
    /\ ord_pc["assignments"] = "fork_submissions"
    /\ n_active_requests' = n_active_requests + 1
    /\ ord_pc' = [ord_pc EXCEPT !["assignments"] = "fork_html_links",
                                !["submissions"] = "spawned"]
    /\ UNCHANGED << mainPc, sem_requests, files_to_download, local_files >>
    /\ OrdFrame

\* fork!(process_html_links, (assignment.description, assignment_path), ..)
OrdForkHtmlLinks ==
    /\ ord_pc["assignments"] = "fork_html_links"
    /\ n_active_requests' = n_active_requests + 1
    /\ ord_pc' = [ord_pc EXCEPT !["assignments"] = "return",
                                !["html_links"] = "spawned"]
    /\ UNCHANGED << mainPc, sem_requests, files_to_download, local_files >>
    /\ OrdFrame

\* sem_requests.acquire().await of a forked task.
OrdAcquire ==
    /\ \E t \in OrdChildren :
          /\ ord_pc[t] = "spawned"
          /\ ord_pc' = [ord_pc EXCEPT ![t] = "run"]
    /\ sem_requests > 0
    /\ sem_requests' = sem_requests - 1
    /\ UNCHANGED << mainPc, n_active_requests, files_to_download, local_files >>
    /\ OrdFrame

\* process_submissions: the response is there, File::create(submission.json).
OrdCreateJson ==
    /\ ord_pc["submissions"] = "run"
    /\ local_files' = [local_files EXCEPT ![submissions_json] = Now]
    /\ ord_pc' = [ord_pc EXCEPT !["submissions"] = "created"]
    /\ UNCHANGED << mainPc, n_active_requests, sem_requests, files_to_download >>
    /\ OrdFrame

\* process_submissions: filter_files(path, submissions.attachments), lock, append.
OrdSubmissionsAppend ==
    /\ ord_pc["submissions"] = "created"
    /\ files_lock = "free"
    /\ files_to_download' = files_to_download \o filter_files(ord_atts)
    /\ ord_pc' = [ord_pc EXCEPT !["submissions"] = "return"]
    /\ UNCHANGED << mainPc, n_active_requests, sem_requests, local_files >>
    /\ OrdFrame

\* process_html_links: filter_files(path, link_files), lock, append.
OrdHtmlLinksAppend ==
    /\ ord_pc["html_links"] = "run"
    /\ files_lock = "free"
    /\ files_to_download' = files_to_download \o filter_files(ord_links)
    /\ ord_pc' = [ord_pc EXCEPT !["html_links"] = "return"]
    /\ UNCHANGED << mainPc, n_active_requests, sem_requests, local_files >>
    /\ OrdFrame

\* The handler returned: fetch_sub(1), notify_one() at zero (main is waiting
\* at its first barrier), the permit is dropped.
OrdReturn ==
    /\ \E t \in OrdTasks :
          /\ ord_pc[t] = "return"
          /\ ord_pc' = [ord_pc EXCEPT ![t] = "done"]
    /\ n_active_requests' = n_active_requests - 1
    /\ sem_requests' = sem_requests + 1
    /\ mainPc' = IF n_active_requests - 1 = 0 THEN "assert1" ELSE mainPc
    /\ UNCHANGED << files_to_download, local_files >>
    /\ OrdFrame

\* The tasks of the assignment as process_assignments is about to fork them;
\* process_assignments is a forked task itself, counted and holding a permit.
OrdStart ==
    /\ mainPc' = "blocked1"
    /\ n_active_requests' = 1
    /\ sem_requests' = K - 1
    /\ files_to_download' = << >>
    /\ local_files' = ord_fs0
    /\ ord_pc' = [t \in OrdTasks |->
                    IF t = "assignments" THEN "fork_submissions" ELSE "unforked"]

\* Phase 1 is over; the program is run once more against the same server and
\* the same local directory, the first execution's accumulator is kept.
OrdRerun ==
    /\ mainPc = "assert1"
    /\ ord_run = 1
    /\ ord_run' = 2
    /\ ord_prev' = files_to_download
    /\ OrdStart
    /\ UNCHANGED << forkBudget, courses_left, download_i, sem_closed, notify_main,
                    files_lock, tasks, nDecs, nErrs, forkAtFull, apiVars, pageVars,
                    dlVars, download_newer, filter_pc, filter_in, filter_out,
                    ord_links, ord_atts, ord_fs0 >>

\* No get_canvas_api call is followed.
ApiIdle ==
    /\ api_pc = "idle"
    /\ retry = 0
    /\ requests = 0
    /\ served = << >>
    /\ waits = << >>
    /\ api_result = [kind |-> "none", status |-> 0]

\* No get_pages call is followed.
PagesIdle ==
    /\ pg_pc = "idle"
    /\ pg_link = NoUri
    /\ pg_sent = << >>
    /\ pg_got = << >>
    /\ pg_resps = << >>
    /\ pg_result = "none"

\* The local directory and the update policy, as the run finds them.
LocalInit ==
    /\ download_newer \in BOOLEAN
    /\ local_files \in [FileNames -> LocalStates]

\* No filter_files call is followed: an empty directory, updates off.
FilterIdle ==
    /\ download_newer = FALSE
    /\ local_files = [n \in FileNames |-> Absent]
    /\ filter_pc = "idle"
    /\ filter_in = << >>
    /\ filter_out = << >>

\* No download's file operations are followed.
DlIdle ==
    /\ dl_pc = << >>
    /\ dl_fd = << >>
    /\ dl_off = << >>
    /\ dl_reqs = << >>
    /\ dl_status = << >>
    /\ dl_err = << >>
    /\ dl_mtime = << >>
    /\ dir = [p \in Paths |-> NoInode]
    /\ data = [i \in Inodes |-> { }]

\* No assignment's tasks are followed.
OrderIdle ==
    /\ ord_pc = [t \in OrdTasks |-> "done"]
    /\ ord_links = << >>
    /\ ord_atts = << >>
    /\ ord_fs0 = [n \in FileNames |-> Absent]
    /\ ord_run = 0
    /\ ord_prev = << >>

\* Nothing but the task graph is followed.
RestIdle == PagesIdle /\ FilterIdle /\ DlIdle /\ OrderIdle

\* The task graph: main, fork! and the handlers as far as they touch the
\* counter, the semaphore, the wake signal and the accumulator. A handler's
\* remote calls change none of these and are not followed here.
Init ==
    /\ forkBudget = MaxForks
    /\ EngineInit
    /\ ApiIdle
    /\ RestIdle

Next ==
    \/ MainForkData
    \/ MainForkVideos
    \/ MainMkdirFail
    \/ MainWait
    \/ MainAssert1
    \/ MainLock
    \/ MainPreInc
    \/ MainForkDownload
    \/ MainRelease
    \/ MainNotify
    \/ MainClose
    \/ MainAssert2
    \/ AcquireDiscovery
    \/ AcquireDownload
    \/ AcquireClosed
    \/ HandlerFork
    \/ HandlerAppend
    \/ HandlerReturn
    \/ HandlerPanic
    \/ DownloadSend
    \/ DownloadFetched
    \/ DownloadReturn
    \/ TaskNotify
    \/ TaskExit

Spec == Init /\ [][Next]_vars

\* A step of main.
MainStep ==
    \/ MainForkData
    \/ MainForkVideos
    \/ MainWait
    \/ MainAssert1
    \/ MainLock
    \/ MainPreInc
    \/ MainForkDownload
    \/ MainRelease
    \/ MainNotify
    \/ MainClose
    \/ MainAssert2

\* A step of a spawned task. A handler forks and appends only finitely
\* often, so a handler that is polled returns at some point.
TaskStep ==
    \/ AcquireDiscovery
    \/ AcquireDownload
    \/ AcquireClosed
    \/ HandlerFork
    \/ HandlerAppend
    \/ HandlerReturn
    \/ DownloadSend
    \/ DownloadFetched
    \/ DownloadReturn
    \/ TaskNotify
    \/ TaskExit

\* The tokio runtime keeps polling main while it can make a step, and the
\* spawned tasks while one of them can.
FairScheduling == WF_vars(MainStep) /\ WF_vars(TaskStep)

\* The task graph when every handler body and every remote call returns, Ok
\* or Err, and main's create_dir calls succeed.
NextLive == MainStep \/ TaskStep

InitLive ==
    /\ forkBudget = MaxForksLive
    /\ EngineInit
    /\ ApiIdle
    /\ RestIdle

SpecLive == InitLive /\ [][NextLive]_vars /\ FairScheduling

\* The same task graph with every remote call of the handlers followed, and
\* process_html_links as a handler of its own.
InitCalls ==
    /\ forkBudget = MaxForksCalls
    /\ EngineInit
    /\ ApiIdle
    /\ RestIdle

NextCalls ==
    \/ Next
    \/ AcquireHtml
    \/ HandlerForkHtml
    \/ HandlerCall
    \/ HandlerCallEnd
    \/ HtmlJoinFiles
    \/ HtmlJoinImages
    \/ HtmlCallEnd
    \/ HtmlAppend
    \/ HtmlReturn

SpecCalls == InitCalls /\ [][NextCalls]_vars

\* One call of get_canvas_api against a server that answers as it likes.
InitApi ==
    /\ forkBudget = 0
    /\ EngineInit
    /\ courses_left = 1
    /\ api_pc = "parse"
    /\ retry = 0
    /\ requests = 0
    /\ served = << >>
    /\ waits = << >>
    /\ api_result = [kind |-> "none", status |-> 0]
    /\ RestIdle

NextApi ==
    \/ ApiParseUrl
    \/ ApiSend
    \/ ApiResponse
    \/ ApiBackoff

SpecApi == InitApi /\ [][NextApi]_vars

\* One call of get_pages against a server that answers as it likes.
InitPages ==
    /\ forkBudget = 0
    /\ EngineInit
    /\ courses_left = 1
    /\ ApiIdle
    /\ pg_pc = "loop"
    /\ pg_link = 1
    /\ pg_sent = << >>
    /\ pg_got = << >>
    /\ pg_resps = << >>
    /\ pg_result = "none"
    /\ FilterIdle
    /\ DlIdle
    /\ OrderIdle

NextPages ==
    \/ PgSend
    \/ PgResponse
    \/ PgReturn

SpecPages == InitPages /\ [][NextPages]_vars

\* One call of filter_files, for any directory, policy and candidates.
InitFilter ==
    /\ forkBudget = 0
    /\ EngineInit
    /\ courses_left = 1
    /\ ApiIdle
    /\ PagesIdle
    /\ LocalInit
    /\ filter_pc = "call"
    /\ filter_in \in CandidateLists(MaxCands)
    /\ filter_out = << >>
    /\ DlIdle
    /\ OrderIdle

NextFilter == FilterCall

SpecFilter == InitFilter /\ [][NextFilter]_vars

\* The accumulator as the discovery handlers' filter_files results fill it.
InitAccum ==
    /\ forkBudget = 0
    /\ EngineInit
    /\ courses_left = 1
    /\ ApiIdle
    /\ PagesIdle
    /\ LocalInit
    /\ filter_pc = "idle"
    /\ filter_in = << >>
    /\ filter_out = << >>
    /\ DlIdle
    /\ OrderIdle

NextAccum == FilterAppend

SpecAccum == InitAccum /\ [][NextAccum]_vars

\* Candidates as discovery finds them for phase 2: locked or not, with a
\* timestamp that parses or one that does not.
DlCandidates ==
    { Candidate(n, l, st) :
        n \in DisplayNames, l \in BOOLEAN, st \in { Stamp(2, 0), BadStamp } }

\* Phase 2 on disk: the accumulator holds what filter_files kept of the at
\* most n candidates found, and one download task runs per entry.
DownloadInit(n) ==
    /\ forkBudget = 0
    /\ mainPc = "wait2"
    /\ courses_left = 0
    /\ sem_requests = K
    /\ sem_closed = FALSE
    /\ notify_main = FALSE
    /\ files_lock = "main"
    /\ tasks = [c \in AllClasses |-> 0]
    /\ nDecs = 0
    /\ nErrs = 0
    /\ forkAtFull = FALSE
    /\ ApiIdle
    /\ PagesIdle
    /\ LocalInit
    /\ filter_pc = "idle"
    /\ filter_in = << >>
    /\ filter_out = << >>
    /\ \E found \in UNION { [1..k -> DlCandidates] : k \in 0..n } :
          files_to_download = filter_files(found)
    /\ n_active_requests = Len(files_to_download)
    /\ download_i = Len(files_to_download)
    /\ dl_pc = [i \in Downloads |-> "start"]
    /\ dl_fd = [i \in Downloads |-> NoInode]
    /\ dl_off = [i \in Downloads |-> 0]
    /\ dl_reqs = [i \in Downloads |-> 0]
    /\ dl_status = [i \in Downloads |-> 0]
    /\ dl_err = [i \in Downloads |-> "none"]
    /\ dl_mtime = [i \in Downloads |-> "none"]
    /\ dir = [p \in Paths |->
                IF p[1] = "final" /\ local_files[p[2]] # Absent THEN OldFile ELSE NoInode]
    /\ data = [i \in Inodes |-> { }]
    /\ OrderIdle

InitDownload == DownloadInit(MaxDownloads)

NextDownload ==
    \/ FetchFile
    \/ FetchResponse
    \/ CreateTmp
    \/ WriteChunk
    \/ FinishBody
    \/ SetMtime
    \/ RenameTmp
    \/ RemoveTmp

SpecDownload == InitDownload /\ [][NextDownload]_vars

\* The same with fewer download tasks: each one's way from request to commit.
InitTransfer == DownloadInit(MaxTransfers)

SpecTransfer == InitTransfer /\ [][NextDownload]_vars

\* Phase 1 of the fan-out scenario: main forks the roots and waits; every
\* root forks its children; every child appends one candidate.
InitFan ==
    /\ forkBudget = Scenario.roots * (1 + Scenario.children)
    /\ mainPc = "fork_root"
    /\ courses_left = Scenario.roots
    /\ OptionsInit
    /\ ApiIdle
    /\ RestIdle

NextFan ==
    \/ FanMainFork
    \/ MainWait
    \/ MainAssert1
    \/ FanAcquireRoot
    \/ FanAcquireChild
    \/ FanRootFork
    \/ FanRootReturn
    \/ FanChildAppend
    \/ FanChildReturn
    \/ TaskNotify
    \/ TaskExit

SpecFan == InitFan /\ [][NextFan]_vars

\* One assignment's tasks, executed twice on the same input: any links, any
\* attachments, any local directory and policy.
InitOrder ==
    /\ forkBudget = 0
    /\ courses_left = 0
    /\ download_i = 0
    /\ sem_closed = FALSE
    /\ notify_main = FALSE
    /\ files_lock = "free"
    /\ tasks = [c \in AllClasses |-> 0]
    /\ nDecs = 0
    /\ nErrs = 0
    /\ forkAtFull = FALSE
    /\ ApiIdle
    /\ PagesIdle
    /\ DlIdle
    /\ LocalInit
    /\ filter_pc = "idle"
    /\ filter_in = << >>
    /\ filter_out = << >>
    /\ ord_links \in OrdLists
    /\ ord_atts \in OrdLists
    /\ ord_fs0 = local_files
    /\ ord_run = 1
    /\ ord_prev = << >>
    /\ mainPc = "blocked1"
    /\ n_active_requests = 1
    /\ sem_requests = K - 1
    /\ files_to_download = << >>
    /\ ord_pc = [t \in OrdTasks |->
                   IF t = "assignments" THEN "fork_submissions" ELSE "unforked"]

NextOrder ==
    \/ OrdForkSubmissions
    \/ OrdForkHtmlLinks
    \/ OrdAcquire
    \/ OrdCreateJson
    \/ OrdSubmissionsAppend
    \/ OrdHtmlLinksAppend
    \/ OrdReturn
    \/ OrdRerun

SpecOrder == InitOrder /\ [][NextOrder]_vars

TypeOK ==
    /\ n_active_requests \in 0..(MaxForks + MaxFiles + 1)
    /\ sem_requests \in 0..K
    /\ \A c \in Classes : tasks[c] \in 0..(MaxForks + MaxFiles)
    /\ Len(files_to_download)
          <= MaxFiles + MaxAccum + Scenario.roots * Scenario.children
    /\ retry \in 0..MaxAttempts

\* ------------------------------------------------------------------ claims
\* main holds its phase-2 pre-increment.
PreIncrement == IF mainPc = "dl_loop" THEN 1 ELSE 0

\* Tasks whose handler ended, by returning or by aborting.
HandlerEnded == Count({ Notify, Exit, Done, Panicked })

\* C1: main's first notified().await returns only when no forked task is
\* left waiting or inside its handler and the counter is 0, so the first
\* assert_eq never fails.
C1_Phase1Barrier ==
    /\ mainPc = "assert1" => (Unfinished = 0 /\ n_active_requests = 0)
    /\ mainPc # "panic_assert1"

\* C2: every task whose handler ended (Ok, Err or abort) has made its one
\* fetch_sub, and the counter is the number of forked tasks that have not
\* decremented, plus main's pre-increment while it is held.
C2_ExactlyOnce ==
    /\ nDecs = HandlerEnded
    /\ n_active_requests = nForked - nDecs + PreIncrement

\* C3: never more than K remote calls in flight.
C3_AdmissionBound == InFlight <= K

\* C4: main's second notified().await returns only when no download task is
\* left waiting or inside atomic_download_file; the semaphore is closed only
\* then, and the final assert_eq never fails.
C4_Phase2Barrier ==
    /\ mainPc \in { "close", "assert2", "done" } => Count(DownloadClasses) = 0
    /\ mainPc # "panic_assert2"

\* C5: when the semaphore is closed no forked task waits for a permit or
\* runs its handler, and no task ever meets the closed semaphore.
C5_CloseSafety ==
    /\ sem_closed => Unfinished = 0
    /\ tasks[SemPanicked] = 0

\* C6: a fork! only adds one to the counter and one task awaiting acquire();
\* it takes no permit and waits for none, whatever the semaphore holds, and
\* a running handler can fork whenever the workload has a task left to fork.
C6_SpawnNonBlocking ==
    /\ [][nForked' = nForked + 1 =>
            /\ n_active_requests' = n_active_requests + 1
            /\ sem_requests' = sem_requests
            /\ Holding' = Holding
            /\ Count(WaitingClasses)' = Count(WaitingClasses) + 1]_vars
    /\ []((Alive /\ tasks[Run] > 0 /\ CanFork) => ENABLED HandlerFork)

\* C6 witness: a task holding a permit forked while all K permits were taken.
C6_Witness == forkAtFull /\ sem_requests = 0 /\ Holding = K

\* A handler of one task fails in this step: it returns Err, or it aborts.
HandlerFails == nErrs' = nErrs + 1 \/ tasks[Panicked]' = tasks[Panicked] + 1

\* C7: a failing handler (Err or abort) is one decrement of the counter by
\* the failing task, whose permit comes back when it ends; no other task
\* changes position and main does not move; and main never stays blocked at
\* a barrier once no forked task is left to finish or to notify.
C7_FailureIsolation ==
    /\ [][HandlerFails =>
            /\ n_active_requests' = n_active_requests - 1
            /\ nDecs' = nDecs + 1
            /\ \E from \in HandlerClasses, to \in { Notify, Exit } :
                  tasks' = [tasks EXCEPT ![from] = @ - 1, ![to] = @ + 1]
            /\ mainPc' = mainPc
            /\ files_to_download' = files_to_download]_vars
    /\ [][tasks[Done]' = tasks[Done] + 1 => sem_requests' = sem_requests + 1]_vars
    /\ [](mainPc \in { "blocked1", "blocked2" }
            => (Unfinished > 0 \/ tasks[Notify] > 0))

\* The part of C7 about handlers that return Err, with no abort in the run.
ErrIsolation ==
    /\ [][nErrs' = nErrs + 1 =>
            /\ n_active_requests' = n_active_requests - 1
            /\ nDecs' = nDecs + 1
            /\ \E from \in HandlerClasses, to \in { Notify, Exit } :
                  tasks' = [tasks EXCEPT ![from] = @ - 1, ![to] = @ + 1]
            /\ sem_requests' = sem_requests
            /\ mainPc' = mainPc
            /\ files_to_download' = files_to_download]_vars
    /\ []((mainPc \in { "blocked1", "blocked2" } /\ tasks[Panicked] = 0)
            => (Unfinished > 0 \/ tasks[Notify] > 0))

ApiReturned == api_pc = "returned"

AllForbidden(seq) == \A i \in 1..Len(seq) : seq[i] = Resp(FORBIDDEN)

\* C8: one call sends at most 3 requests, and sends another one only after
\* a response with status 403.
C8_RetryCap ==
    /\ requests <= 3
    /\ \A i \in 1..Len(served) : requests > i => served[i] = Resp(FORBIDDEN)

\* C8 witness: a call that used all its attempts.
C8_Witness == ApiReturned /\ requests = 3

\* C9: answered 403, 403 the call goes on to a third request, and answered
\* 403, 403, 200 it returns that 200 response as Ok after exactly 3 requests.
C9_RetrySuccess ==
    /\ served = << Resp(FORBIDDEN), Resp(FORBIDDEN) >>
          => (api_pc \in { "sleep", "send", "await" } /\ api_result.kind = "none")
    /\ served = << Resp(FORBIDDEN), Resp(FORBIDDEN), Resp(200) >>
          => /\ ApiReturned
             /\ api_result = [kind |-> "Ok", status |-> 200]
             /\ requests = 3

\* C9 witness: the call returned after 403, 403, 200.
C9_Witness ==
    ApiReturned /\ served = << Resp(FORBIDDEN), Resp(FORBIDDEN), Resp(200) >>

C11_ExhaustionIsErr ==
    (ApiReturned /\ served # << >> /\ AllForbidden(served))
        => api_result.kind = "Err"

\* C25: a request that fails at the transport level is the call's last: the
\* call has returned Err, no request follows it, and no backoff sleep was
\* made for it (one sleep per earlier 403, none for the error).
C25_NetErrorNotRetried ==
    \A i \in 1..Len(served) :
        served[i] = NetError
            => /\ ApiReturned
               /\ api_result.kind = "Err"
               /\ Len(served) = i
               /\ requests = i
               /\ Len(waits) = i - 1

\* C25 witness: the call returned on a transport error of its second attempt.
C25_Witness ==
    ApiReturned /\ served = << Resp(FORBIDDEN), NetError >>

\* The response carries `next`.
HasNext(r) == r.header = "links" /\ r.next # NoUri

\* The response's `current` and `last` name the same uri.
CurrentIsLast(r) ==
    r.header = "links" /\ r.current # NoUri /\ r.current = r.last

\* C12: get_pages sends no request after a response without `next`, nor
\* after one whose `current` equals its `last` (a `next` notwithstanding),
\* and then returns every page it fetched; with current = last on page 3 of
\* a listing that is 3 requests and 3 pages.
C12_StopRule ==
    /\ \A i \in 1..Len(pg_got) :
          (pg_got[i] # ApiErr /\ (~HasNext(pg_got[i]) \/ CurrentIsLast(pg_got[i])))
              => Len(pg_sent) = i
    /\ pg_result = "Ok" => Len(pg_resps) = Len(pg_sent)

\* C13: after a response that carries `next`, unless its `current` equals
\* its `last`, get_pages goes on, and the next request is for the uri that
\* `next` names.
C13_ContinueRule ==
    \A i \in 1..Len(pg_got) :
        (HasNext(pg_got[i]) /\ ~CurrentIsLast(pg_got[i]))
            => /\ pg_result # "panic"
               /\ Len(pg_sent) = i => (pg_pc = "loop" /\ pg_link = pg_got[i].next)
               /\ Len(pg_sent) > i => pg_sent[i + 1] = pg_got[i].next

\* The i-th candidate of the call, with its target path.
Target(i) == sanitize(filter_in[i].display_name)

\* The candidate is among the selected ones.
Selected(i) ==
    \E j \in 1..Len(filter_out) :
        filter_out[j] = [filter_in[i] EXCEPT !.filepath = Target(i)]

\* The reference rule: not locked, a timestamp that parses, and either no
\* file at the target path or updates enabled and a local file strictly
\* older than the remote timestamp.
ShouldKeep(f) ==
    /\ ~f.locked_for_user
    /\ f.updated_at.ok
    /\ \/ local_files[sanitize(f.display_name)] = Absent
       \/ /\ download_newer
          /\ local_files[sanitize(f.display_name)] # NoMtime
          /\ local_files[sanitize(f.display_name)]
                < f.updated_at.clock - f.updated_at.offset

KeepIndices == { i \in 1..Len(filter_in) : ShouldKeep(filter_in[i]) }

\* C14: the result of filter_files is the candidates the reference rule
\* keeps, in list order, each with its target path.
C14_FilterReference ==
    filter_pc = "returned" =>
        /\ Len(filter_out) = Cardinality(KeepIndices)
        /\ \A i \in 1..Len(filter_in) : Selected(i) <=> ShouldKeep(filter_in[i])
        /\ \A j \in 1..Len(filter_out) :
              /\ ShouldKeep(filter_out[j])
              /\ filter_out[j].filepath = sanitize(filter_out[j].display_name)

\* C14 witness: with updates on, a call that dropped a candidate whose local
\* copy is as new as the remote file and kept one whose local copy is older.
C14_Witness ==
    /\ filter_pc = "returned"
    /\ Len(filter_in) = 2
    /\ Len(filter_out) = 1
    /\ download_newer
    /\ local_files[Target(1)] = 1
    /\ filter_in[1].updated_at = Stamp(2, 1)
    /\ ~Selected(1)
    /\ local_files[Target(2)] = 1
    /\ filter_in[2].updated_at = Stamp(2, 0)
    /\ Selected(2)

\* C15 as claimed: a candidate whose target path does not exist locally is
\* selected, whatever its other fields and the update policy.
C15_AbsentSelected ==
    filter_pc = "returned" =>
        \A i \in 1..Len(filter_in) :
            local_files[Target(i)] = Absent => Selected(i)

\* C15 amended: a candidate whose target path does not exist locally is
\* selected, whatever the update policy, when it is not locked and its
\* timestamp parses.
C15_AbsentUnlockedSelected ==
    filter_pc = "returned" =>
        \A i \in 1..Len(filter_in) :
            (/\ local_files[Target(i)] = Absent
             /\ ~filter_in[i].locked_for_user
             /\ filter_in[i].updated_at.ok) => Selected(i)

\* C15 witness: a new file selected with updates off.
C15_Witness ==
    /\ filter_pc = "returned"
    /\ ~download_newer
    /\ \E i \in 1..Len(filter_in) :
          local_files[Target(i)] = Absent /\ Selected(i)

\* C16: no candidate with locked_for_user is selected.
C16_LockedNeverSelected ==
    /\ \A j \in 1..Len(filter_out) : ~filter_out[j].locked_for_user
    /\ filter_pc = "returned" =>
          \A i \in 1..Len(filter_in) :
              filter_in[i].locked_for_user => ~Selected(i)

\* C16 witness: a locked candidate of a new file, dropped.
C16_Witness ==
    /\ filter_pc = "returned"
    /\ \E i \in 1..Len(filter_in) :
          /\ filter_in[i].locked_for_user
          /\ filter_in[i].updated_at.ok
          /\ local_files[Target(i)] = Absent
          /\ ~Selected(i)

\* C17: no two entries of the accumulator have the same target path.
C17_NoAliasing ==
    \A i, j \in 1..Len(files_to_download) :
        i # j => files_to_download[i].filepath # files_to_download[j].filepath

\* What is at the final path is nothing, the file a former run left, or one
\* whole body.
WholeOrNothing(p) == dir[p] \in { NoInode, OldFile } \/ WholeBody(dir[p])

\* Some task has renamed its temp file onto the final path of f.
CommittedTo(f) ==
    \E j \in Downloads :
        dl_pc[j] = "committed" /\ FinalPath(files_to_download[j]) = FinalPath(f)

\* C18: at no time does a final target path hold part of a body, and after
\* a download failed its final path is as the run found it (absent, if it
\* was absent) unless another download was committed there.
C18_AtomicCommit ==
    /\ \A n \in FileNames : WholeOrNothing(<< "final", n >>)
    /\ \A i \in Downloads :
          (dl_pc[i] = "failed" /\ ~CommittedTo(files_to_download[i]))
              => dir[FinalPath(files_to_download[i])] =
                    (IF local_files[files_to_download[i].filepath] = Absent
                       THEN NoInode ELSE OldFile)

\* The part of C18 about downloads that share no temp path.
AtomicApart ==
    (\A i, j \in Downloads :
        i # j => TmpPath(files_to_download[i]) # TmpPath(files_to_download[j]))
        => C18_AtomicCommit

\* main is past the first wait and its assert_eq.
PastBarrier1 ==
    mainPc \in { "lock", "preinc", "dl_loop", "notify2", "wait2", "blocked2",
                 "close", "assert2", "done", "panic_assert2" }

\* Tasks whose handler has returned.
Completed == Count({ Notify, Exit, Done })

\* Phase-1 quiescence has fired: a task saw new_val == 0, or its notify_one
\* is stored or has woken main.
QuiescenceFired ==
    \/ tasks[Notify] > 0
    \/ notify_main
    \/ mainPc \in { "assert1", "lock", "panic_assert1" }

\* C21: in the fan-out scenario (3 roots, 2 children each, 1 candidate per
\* child) quiescence fires only with all 9 tasks completed and 6 candidates
\* in the accumulator.
C21_FanOut ==
    QuiescenceFired => (Completed = 9 /\ Len(files_to_download) = 6)

\* A wake of phase 1 that is under way: a task about to call notify_one, or
\* a stored permit.
PendingWakes == tasks[Notify] + (IF notify_main THEN 1 ELSE 0)

\* C22: in phase 1 the counter is 0 (after a decrement) only when main has
\* no root task left to fork and no forked task is unfinished, and never
\* more than one wake is under way.
C22_SingleWake ==
    ~PastBarrier1 =>
        /\ (n_active_requests = 0 /\ nForked > 0)
              => (RootsLeft = 0 /\ Unfinished = 0)
        /\ PendingWakes <= 1

\* main has left the download loop.
PastDownloadLoop ==
    mainPc \in { "notify2", "wait2", "blocked2", "close", "assert2", "done",
                 "panic_assert2" }

\* The state of the spec's download state machine a task is in.
Stage(pc) ==
    CASE pc = "start" -> "Pending"
      [] pc = "fetch" -> "Fetching"
      [] pc \in { "create", "write" } -> "Writing"
      [] pc \in { "mtime", "rename" } -> "Finalizing"
      [] pc = "committed" -> "Committed"
      [] pc \in { "cleanup", "failed" } -> "Failed"

\* The moves of the state machine as the spec draws it.
StageEdges ==
    { << "Pending", "Fetching" >>, << "Fetching", "Writing" >>,
      << "Writing", "Finalizing" >>, << "Finalizing", "Committed" >>,
      << "Fetching", "Failed" >>, << "Writing", "Failed" >> }

\* C26 as claimed: a download task changes state only along Pending ->
\* Fetching -> Writing -> Finalizing -> Committed, or from Fetching or Writing
\* to Failed; nothing leaves Committed or Failed.
C26_StateMachine ==
    [][\A i \in Downloads :
          \/ Stage(dl_pc'[i]) = Stage(dl_pc[i])
          \/ << Stage(dl_pc[i]), Stage(dl_pc'[i]) >> \in StageEdges]_vars

\* C26 amended: as claimed, except that Failed is also entered from the
\* commit, when the rename of the temp file onto the final path fails; it is
\* never entered from the timestamp step of Finalizing.
C26_StateMachineRename ==
    [][\A i \in Downloads :
          \/ Stage(dl_pc'[i]) = Stage(dl_pc[i])
          \/ << Stage(dl_pc[i]), Stage(dl_pc'[i]) >> \in StageEdges
          \/ /\ dl_pc[i] = "rename"
             /\ dl_pc'[i] = "failed"
             /\ dl_err'[i] = "rename"
             /\ dir' = dir]_vars

\* C26 witness: a download whose rename failed with its temp file in place.
C26_Witness ==
    \E i \in Downloads :
        /\ dl_pc[i] = "failed"
        /\ dl_err[i] = "rename"
        /\ dir[TmpPath(files_to_download[i])] # NoInode

\* The download failed in Fetching or Writing: request error, non-success
\* status, temp-file create error, chunk read or write error.
FailedInTransfer(i) ==
    dl_pc[i] = "failed" /\ dl_err[i] \in { "send", "status", "create", "copy" }

\* What the run found at the final path of f.
AsFound(f) == IF local_files[f.filepath] = Absent THEN NoInode ELSE OldFile

\* Another download has a temp file at the temp path of download i: one it
\* works on, or one its failed rename left there.
TmpOfAnother(i) ==
    \E j \in Downloads \ { i } :
        /\ TmpPath(files_to_download[j]) = TmpPath(files_to_download[i])
        /\ \/ dl_pc[j] \in { "write", "mtime", "rename", "cleanup" }
           \/ dl_pc[j] = "failed" /\ dl_err[j] = "rename"

\* C27: after a download failed in Fetching or Writing, no temp file of it
\* is on disk (what is at its temp path, if anything, is the temp file of
\* another download), and its final path is as the run found it, or holds
\* the whole body another download committed there.
C27_TempCleanup ==
    \A i \in Downloads :
        FailedInTransfer(i) =>
            LET f == files_to_download[i] IN
            /\ dir[TmpPath(f)] = NoInode \/ TmpOfAnother(i)
            /\ \/ dir[FinalPath(f)] = AsFound(f)
               \/ CommittedTo(f) /\ WholeBody(dir[FinalPath(f)])

\* The part of C27 about downloads that share no final path.
CleanupApart ==
    (\A i, j \in Downloads :
        i # j => FinalPath(files_to_download[i]) # FinalPath(files_to_download[j]))
        => \A i \in Downloads :
              FailedInTransfer(i) =>
                  /\ dir[TmpPath(files_to_download[i])] = NoInode
                  /\ dir[FinalPath(files_to_download[i])] = AsFound(files_to_download[i])

\* C28 as claimed: a download whose timestamp step failed goes on to the
\* rename and ends Committed.
C28_BestEffortCommitted ==
    \A i \in Downloads :
        dl_mtime[i] = "failed" => dl_pc[i] \in { "rename", "committed" }

\* C28 amended: a failure to set the temp file's modification time is only
\* logged: the download goes on to the rename and ends Committed unless the
\* rename itself fails; and the timestamp of an accumulator entry always
\* parses, so no download ends at the timestamp step.
C28_BestEffort ==
    \A i \in Downloads :
        /\ StampParses(files_to_download[i])
        /\ dl_err[i] \notin { "parse", "mtime" }
        /\ dl_mtime[i] # "none" =>
              \/ dl_pc[i] \in { "rename", "committed" }
              \/ dl_pc[i] = "failed" /\ dl_err[i] = "rename"

\* C28 witness: a download committed after set_file_mtime had failed.
C28_Witness ==
    \E i \in Downloads :
        /\ dl_mtime[i] = "failed"
        /\ dl_pc[i] = "committed"
        /\ dir[FinalPath(files_to_download[i])] \in Inodes

\* C29: a download task sends one request, no more: none before it starts,
\* one from then on, whatever the answer; a transport error or a non-success
\* status, 403 included, takes it to Failed, and only the answer 200 lets it
\* create its temp file.
C29_NoDownloadRetry ==
    \A i \in Downloads :
        /\ dl_reqs[i] = (IF dl_pc[i] = "start" THEN 0 ELSE 1)
        /\ dl_err[i] \in { "send", "status" } =>
              (Stage(dl_pc[i]) = "Failed" /\ dl_fd[i] = NoInode)
        /\ (dl_status[i] # 0 /\ ~IsSuccess(dl_status[i])) =>
              (Stage(dl_pc[i]) = "Failed" /\ dl_err[i] = "status")
        /\ Stage(dl_pc[i]) \in { "Writing", "Finalizing", "Committed" } =>
              IsSuccess(dl_status[i])

\* C29 witness: a download answered 403 has failed after its one request.
C29_Witness ==
    \E i \in Downloads :
        /\ dl_pc[i] = "failed"
        /\ dl_status[i] = FORBIDDEN
        /\ dl_reqs[i] = 1

\* main has made its pre-increment: the download loop and what follows it.
Phase2 == mainPc = "dl_loop" \/ PastDownloadLoop

C24_IncrementBeforeStart ==
    /\ [][(\E c \in WaitingClasses : tasks'[c] = tasks[c] + 1) =>
            /\ n_active_requests' = n_active_requests + 1
            /\ sem_requests' = sem_requests
            /\ nDecs' = nDecs
            /\ \A c \in HandlerClasses : tasks'[c] = tasks[c]
            /\ (mainPc' = mainPc /\ download_i' = download_i)
                  => \E c \in HandlerClasses : tasks[c] > 0]_vars
    /\ [](n_active_requests >= Unfinished + PreIncrement)
    /\ [](n_active_requests = 0 => Unfinished = 0)

\* C24 witness: main waits at the first barrier, a task that forked a child
\* has made its decrement, and the counter still counts the unfinished ones.
C24_Witness ==
    /\ mainPc = "blocked1"
    /\ nForked >= 3
    /\ Count({ Exit, Done }) >= 1
    /\ Unfinished >= 1
    /\ n_active_requests = Unfinished

\* C30: a download task is forked only by main's download loop, one per
\* step of its iterator over files_to_download (download_i counts the
\* entries visited, the task forked at step i is the one for entry i); the
\* loop forks nothing else, visits every entry once and ends after the last,
\* and the accumulator does not change meanwhile.
C30_OneDownloadPerCandidate ==
    /\ [][tasks'[DlSpawned] = tasks[DlSpawned] + 1 =>
            /\ mainPc = "dl_loop"
            /\ download_i < Len(files_to_download)
            /\ download_i' = download_i + 1]_vars
    /\ [][download_i' # download_i =>
            /\ download_i' = download_i + 1
            /\ tasks'[DlSpawned] = tasks[DlSpawned] + 1
            /\ files_to_download' = files_to_download]_vars
    /\ [][PastBarrier1 =>
            \A c \in WaitingClasses \ { DlSpawned } : tasks'[c] <= tasks[c]]_vars
    /\ [](download_i <= Len(files_to_download))
    /\ [](Count(DownloadClasses) <= download_i)
    /\ [](PastDownloadLoop => download_i = Len(files_to_download))

\* C30 witness: main has left the download loop and the one download task
\* of the one entry is under way.
C30_Witness ==
    /\ PastDownloadLoop
    /\ Len(files_to_download) = 1
    /\ download_i = 1
    /\ Count(DownloadClasses) = 1

\* The entries of a Vec<File> with their multiplicities, the order left out.
BagOfSeq(files) ==
    [f \in { files[i] : i \in DOMAIN files } |->
        Cardinality({ i \in DOMAIN files : files[i] = f })]

\* Phase 1 of the second execution is over.
SecondRunComplete == ord_run = 2 /\ mainPc = "assert1"

\* C31: two executions on the same server behaviour and the same initial
\* local directory that complete phase 1 end it with the same multiset of
\* entries in files_to_download, however their tasks interleave.
C31_OrderIndependence ==
    SecondRunComplete => BagOfSeq(files_to_download) = BagOfSeq(ord_prev)

\* The same for descriptions that link no file named like the file
\* process_submissions writes into the assignment's directory.
OrderApart ==
    (/\ SecondRunComplete
     /\ \A i \in DOMAIN ord_links :
           sanitize(ord_links[i].display_name) # submissions_json)
        => BagOfSeq(files_to_download) = BagOfSeq(ord_prev)

\* Discovery tasks still outstanding: forked, handler not finished.
DiscoveryOutstanding == Count(DiscoveryClasses)

\* C32: no download task exists while a discovery task is outstanding; main
\* goes on to the lock and the download loop only from the assert_eq that
\* read the counter as 0 with every root fork made, and from then on no
\* discovery task is forked or outstanding.
C32_PhaseOrdering ==
    /\ [](Count(DownloadClasses) > 0 => DiscoveryOutstanding = 0)
    /\ [](PastBarrier1 => (DiscoveryOutstanding = 0 /\ RootsLeft = 0))
    /\ [][(mainPc # "lock" /\ mainPc' = "lock") =>
            (mainPc = "assert1" /\ n_active_requests = 0 /\ RootsLeft = 0)]_vars
    /\ [][PastBarrier1 =>
            \A c \in DiscoveryClasses : tasks'[c] <= tasks[c]]_vars

\* C32 witness: a download task runs, forked after three discovery tasks
\* ran to their end.
C32_Witness ==
    /\ tasks[DlFetch] = 1
    /\ tasks[Done] >= 3
    /\ DiscoveryOutstanding = 0

\* C33: when every handler body and every remote call returns, under fair
\* scheduling every forked task gets a permit and runs to its end, and main
\* passes both barriers and returns.
C33_Liveness ==
    /\ <>(mainPc = "done")
    /\ \A c \in WaitingClasses \cup HandlerClasses : (tasks[c] > 0) ~> (tasks[c] = 0)
    /\ <>[](Unfinished = 0)

\* Under the same conditions main does not hang: it returns or it ends in
\* one of its two assert_eq panics.
LiveEnds == <>MainEnded

\* main is parked in notified().await.
MainBlocked == mainPc \in { "blocked1", "blocked2" }

\* C34: a notify_one made while main is not waiting stores its permit, and
\* a notified().await that finds a stored permit returns at once; main is
\* never parked at a barrier with the counter at 0 unless the task that
\* brought it there is about to call notify_one, and it does not stay parked.
C34_NoLostWakeup ==
    /\ [][tasks'[Notify] = tasks[Notify] - 1 =>
            IF MainBlocked THEN ~MainBlocked' ELSE notify_main']_vars
    /\ [][(mainPc \in { "wait1", "wait2" } /\ notify_main /\ mainPc' # mainPc) =>
            (mainPc' \in { "assert1", "close" } /\ ~notify_main')]_vars
    /\ []((MainBlocked /\ n_active_requests = 0) => tasks[Notify] > 0)
    /\ (MainBlocked /\ n_active_requests = 0) ~> ~MainBlocked

\* C34 witness: every task has finished and the last one has called
\* notify_one before main begins its first wait.
C34_Witness ==
    /\ mainPc = "wait1"
    /\ notify_main
    /\ n_active_requests = 0
    /\ nForked > 0
    /\ Count({ Exit, Done }) = nForked

\* C35: the tasks between their acquire() and the end of their spawned
\* block (inside the handler, or past it with the counter decremented) hold
\* one permit each: with the permits available they are always K, so never
\* more than K tasks are inside their handlers; a task waiting for acquire(),
\* one that has ended (Ok or Err) and one that aborted hold none.
C35_SlotConservation ==
    /\ Holding + sem_requests = K
    /\ Count(HandlerClasses) <= K
    /\ nForked = Holding + Count(WaitingClasses \cup { Done, Panicked, SemPanicked })

\* C35 witness: K tasks are inside their handlers and no permit is left,
\* after a task whose handler returned Err has ended and given its permit back.
C35_Witness ==
    /\ Count(HandlerClasses) = K
    /\ sem_requests = 0
    /\ nErrs = 1
    /\ tasks[Done] = 1

\* Phase 2 with nothing to download.
EmptyPhase2 == PastBarrier1 /\ Len(files_to_download) = 0

\* C36: with an empty accumulator phase 2 forks no task; main's fetch_sub
\* brings the counter from 1 to 0 and main calls notify_one itself; the
\* second notified().await never parks main, the final assert_eq holds, and
\* main returns with the counter at 0.
C36_EmptyDownloadPhase ==
    /\ [](EmptyPhase2 =>
            /\ Count(DownloadClasses) = 0
            /\ download_i = 0
            /\ mainPc \notin { "blocked2", "panic_assert2" }
            /\ n_active_requests = PreIncrement)
    /\ [][(EmptyPhase2 /\ mainPc = "dl_loop" /\ mainPc' # "dl_loop") =>
            (mainPc' = "notify2" /\ n_active_requests' = 0)]_vars
    /\ [][(EmptyPhase2 /\ mainPc = "notify2" /\ mainPc' # "notify2") =>
            (mainPc' = "wait2" /\ notify_main')]_vars
    /\ [][(EmptyPhase2 /\ mainPc = "wait2" /\ mainPc' # "wait2") =>
            mainPc' = "close"]_vars
    /\ EmptyPhase2 ~> (mainPc = "done" /\ n_active_requests = 0)

\* C36 witness: discovery found nothing to download, and main has returned.
C36_Witness ==
    /\ mainPc = "done"
    /\ Len(files_to_download) = 0
    /\ nForked >= 2
    /\ n_active_requests = 0

\* Download task i has created its temp file and has neither renamed nor
\* removed it yet.
UsesTmp(i) == dl_pc[i] \in { "write", "mtime", "rename", "cleanup" }

\* C37: two download tasks that have their temp files in use at the same
\* time have different temp paths.
C37_TempExclusivity ==
    \A i \in Downloads : \A j \in Downloads :
        (i # j /\ UsesTmp(i) /\ UsesTmp(j))
            => TmpPath(files_to_download[i]) # TmpPath(files_to_download[j])

\* What filter_files leaves of a file it keeps.
EntryOk(f) ==
    /\ f.locked_for_user = FALSE
    /\ ParsesRfc3339(f.updated_at)
    /\ f.filepath = sanitize(f.display_name)
    /\ f.filepath # NoPath

\* The accumulator as successive appends of discovery handlers fill it.
EntriesFiltered == \A i \in 1..Len(files_to_download) : EntryOk(files_to_download[i])

\* C38: every entry of files_to_download is unlocked, has an updated_at that
\* parse_from_rfc3339 accepts and has for filepath the sanitized display name
\* within the directory it was found for; so a download task that comes to
\* parse its entry's updated_at finds it parsable and never ends there.
C38_EntryInvariant ==
    \A i \in Downloads :
        /\ EntryOk(files_to_download[i])
        /\ dl_err[i] # "parse"
        /\ dl_pc[i] = "rename" => dl_mtime[i] # "none"

\* C38 witness: a download task has parsed the timestamp of an entry whose
\* display name had a character the file name cannot hold.
C38_Witness ==
    \E i \in Downloads :
        /\ files_to_download[i].display_name = << "a", "?" >>
        /\ files_to_download[i].filepath = << "a" >>
        /\ dl_pc[i] = "rename"

\* C19: once main is past the phase-1 barrier no step changes
\* files_to_download, main holds its lock from the lock() on, and the download
\* loop forks one task per entry the accumulator held at the barrier.
C19_FrozenAccumulator ==
    /\ [][PastBarrier1 => files_to_download' = files_to_download]_vars
    /\ []((PastBarrier1 /\ mainPc # "lock") => files_lock = "main")
    /\ [](PastBarrier1 => Count(DiscoveryClasses) = 0)
    /\ [](PastDownloadLoop => download_i = Len(files_to_download))

\* C19 witness: main returned after forking a download for the one entry
\* discovery had accumulated.
C19_Witness ==
    mainPc = "done" /\ Len(files_to_download) > 0
        /\ download_i = Len(files_to_download)

=============================================================================
